---------------------------- MODULE Spec2Model ----------------------------
(***************************************************************************)
(* A model of the core of the dflow Python SDK:                            *)
(*   - the cursor pagination engine   (dflow/utils/pagination.py)          *)
(*   - the retry policy and backoff   (dflow/utils/retry.py)               *)
(*   - the streaming client           (dflow/websocket/client.py)          *)
(*   - the HTTP client and the size-limited endpoint wrappers              *)
(*                    (dflow/utils/http.py, dflow/api/metadata/markets.py) *)
(* Each component has its own specification (SpecPaginate, SpecEndless,    *)
(* SpecAsync, SpecRetry, SpecRetryable, SpecDelay, SpecWS, SpecControl,    *)
(* SpecDefaults, SpecCallbacks, SpecHttp) over one                         *)
(* shared tuple of variables; the components do not share state in the     *)
(* program, so each specification leaves the other components' variables   *)
(* unchanged.                                                              *)
(***************************************************************************)
EXTENDS Integers, Sequences, FiniteSets, TLC

----------------------------------------------------------------------------
(* Bounds of the model *)

\* longest page chain the server holds
MaxPages == 3
\* most items on one page
MaxPageLen == 2
\* largest max_items argument tried
MaxMaxItems == 4
\* largest max_retries argument tried
MaxRetries == 5
\* largest max_reconnect_attempts argument tried
MaxReconnect == 3
\* most transports the server accepts in one run (successful handshakes)
MaxTransports == 2
\* most callback registrations in one run
MaxRegs == 2
\* most calls of one disposer
MaxDisposeCalls == 2
\* most connect() calls the user makes in one run
MaxConnectCalls == 3
\* most consecutive attempt indices a delay is computed for in one run
MaxDelayCalls == 6
\* fetch_page calls kept in the log of calls (more than a finite chain needs)
MaxFetchLog == 6
\* calls of one function made by create_retryable
MaxWrapperCalls == 2

----------------------------------------------------------------------------
(* Python values *)

\* Python's None
NoneVal == "None"

\* an optional integer argument: << >> is None, <<n>> is the integer n
OptNone == << >>
Some(n) == <<n>>
IsNone(o) == o = OptNone
Val(o) == o[1]

\* truth value of an optional integer (None and 0 are falsy)
TruthyInt(o) == ~IsNone(o) /\ Val(o) # 0

\* truth value of a cursor (str | None): None and the empty string are falsy
Truthy(c) == c # NoneVal /\ c # ""

RECURSIVE SumSeq(_)
SumSeq(s) == IF s = << >> THEN 0 ELSE Head(s) + SumSeq(Tail(s))

----------------------------------------------------------------------------
(* The paginated endpoint (the environment of the pagination engine) *)

\* the cursor tokens the server hands out: page i carries Tok[i], which
\* is the cursor of page i+1
Tok == <<"c1", "c2", "c3", "c4", "c5", "c6", "c7", "c8">>

\* the page a cursor token leads to
PageOf(c) == (CHOOSE i \in 1..Len(Tok) : Tok[i] = c) + 1

\* a finite chain of pages built from the page lengths: items are numbered
\* 1, 2, 3, ... in server order (distinct, so any reordering, repetition or
\* omission shows), every page but the last carries a truthy cursor, the
\* last one carries lastCursor (absent, or present and empty)
ChainOf(lens, lastCursor) ==
    [i \in 1..Len(lens) |->
        [items  |-> [j \in 1..lens[i] |-> SumSeq(SubSeq(lens, 1, i - 1)) + j],
         cursor |-> IF i < Len(lens) THEN Tok[i] ELSE lastCursor]]

LenSeqs == UNION {[1..n -> 0..MaxPageLen] : n \in 1..MaxPages}

Chains == {ChainOf(l, c) : l \in LenSeqs, c \in {NoneVal, ""}}

\* chains whose cursors never end: the last page carries the cursor of an
\* earlier page, so the server sends the client round a cycle of two pages
\* or more
CyclicChains ==
    UNION {{ChainOf(l, Tok[k]) : k \in 1..(Len(l) - 2)} :
              l \in {m \in LenSeqs : Len(m) >= 3}}

\* the items of a chain of pages, page after page
RECURSIVE ConcatItems(_)
ConcatItems(ps) ==
    IF ps = << >> THEN << >> ELSE Head(ps).items \o ConcatItems(Tail(ps))

\* predicates tried by find_first: x == t and x >= t
Predicates == [kind : {"eq", "ge"}, t : 1..(MaxPages * MaxPageLen + 1)]
NoPredicate == [kind |-> "none", t |-> 0]
Holds(p, x) ==
    CASE p.kind = "eq" -> x = p.t
      [] p.kind = "ge" -> x >= p.t
      [] OTHER -> FALSE

----------------------------------------------------------------------------
VARIABLES
    \* ---- pagination: one call of collect_all / count_all / find_first
    chain,          \* the server's pages
    pgMode,         \* which consumer drives the generator
    max_items,      \* argument of paginate
    page_size,      \* argument of paginate
    predicate,      \* argument of find_first
    cursor,         \* paginate's local
    items_yielded,  \* paginate's local
    response,       \* index in chain of the page last fetched (0: none yet)
    idx,            \* position of the for loop in the current page's items
    pgPc,           \* where the generator stands
    fetchLog,       \* the params of every fetch_page call, in order
    yielded,        \* the items the generator has yielded, in order
    pgRet,          \* the consumer has returned
    pgResult        \* what it returned

pgVars == <<chain, pgMode, max_items, page_size, predicate, cursor,
            items_yielded, response, idx, pgPc, fetchLog, yielded, pgRet,
            pgResult>>

VARIABLES
    \* ---- retry: one call of with_retry
    max_retries,    \* argument of with_retry
    should_retry,   \* argument of with_retry (None: the default predicate)
    attempt,        \* the loop variable
    last_error,     \* with_retry's local
    rtPc,           \* "call": about to invoke fn; "returned"; "raised"
    rtResult,       \* the value with_retry returned
    rtRaised,       \* the error with_retry raised
    waits,          \* the attempt index each time.sleep delay was computed from
    calls,          \* number of invocations of fn
    lastOutcome,    \* what fn did on its last invocation
    lastCheck,      \* the last call of the retry predicate and its verdict
    nFail,          \* number of invocations of fn that raised
    allRetryable,   \* every error fn raised so far was a retryable one
    \* ---- the function create_retryable returned
    wrCalls,        \* number of calls of wrapper so far
    wrArgs,         \* *args of the current call of wrapper
    fnArgs,         \* the arguments fn received at its last invocation
    prevCalls       \* invocations of fn made by the previous call of wrapper

wrVars == <<wrCalls, wrArgs, fnArgs, prevCalls>>

rtVars == <<max_retries, should_retry, attempt, last_error, rtPc, rtResult,
            rtRaised, waits, calls, lastOutcome, lastCheck, nFail,
            allRetryable, wrVars>>

VARIABLES
    \* ---- streaming client: one DFlowWebSocket instance
    reconnect,              \* self.reconnect
    max_reconnect_attempts, \* self.max_reconnect_attempts
    ws,                     \* self._ws: 0 is None, else a transport
    reconnect_attempts,     \* self._reconnect_attempts
    is_connecting,          \* self._is_connecting
    listen_task,            \* self._listen_task: 0 is None, else a task
    callbacks,              \* the five callback lists, by event
    transports,             \* every transport opened so far and its state
    tasks,                  \* every listener task created so far
    userPc,                 \* a connect() call of the user: "idle", "handshake"
    userRaised,             \* the user's last connect() raised
    disposers,              \* the disposers returned so far, with their calls
    cbRaised,               \* the last disposer call raised ValueError
    fired,                  \* the callback invocations made by the last step
    lastDispatch,           \* the message the last step handled, if it was one
    reconnTries,            \* handshakes started by _attempt_reconnect
    terminalErrors,         \* "Max reconnection attempts reached" deliveries
    closeRounds,            \* rounds of the close callbacks
    interfered,             \* the user called connect() again or disconnect()
    lastSend,               \* the last subscribe_*/unsubscribe call and its outcome
    connectCalls,           \* number of connect() calls of the user
    lastConnect,            \* how the user's last connect() call went on
    disconnected            \* disconnect() was called, and no connect() since

wsVars == <<reconnect, max_reconnect_attempts, ws, reconnect_attempts,
            is_connecting, listen_task, transports, tasks, userPc,
            userRaised, reconnTries, terminalErrors, closeRounds,
            interfered>>

cbVars == <<callbacks, disposers, cbRaised, fired, lastDispatch>>

\* the record of the user's calls
callVars == <<lastSend, connectCalls, lastConnect, disconnected>>

VARIABLES
    \* ---- HTTP client: one call of HttpClient or of an endpoint wrapper
    httpPc,         \* "idle", "sent", "returned", "raised"
    httpCall,       \* the call and its arguments
    httpRequest,    \* the requests handed to the transport, in order
    httpResponse,   \* the response the transport gave
    httpResult      \* what the call returned or raised

httpVars == <<httpPc, httpCall, httpRequest, httpResponse, httpResult>>

VARIABLES
    \* ---- backoff: calls of _calculate_delay for consecutive attempts
    initial_delay_ms,   \* argument
    max_delay_ms,       \* argument
    backoff_multiplier, \* argument
    dlAttempt,          \* argument attempt of the next call
    dlPc,               \* "ready", or "raised" once a call has raised
    dlCalls,            \* number of calls made
    dlPrev,             \* delay_with_cap of the call before the last
    dlDelay,            \* delay_with_cap of the last call
    dlJitter            \* jitter of the last call, in sixteenths of dlDelay

dlVars == <<initial_delay_ms, max_delay_ms, backoff_multiplier, dlAttempt,
            dlPc, dlCalls, dlPrev, dlDelay, dlJitter>>

VARIABLES
    \* ---- paginate_async: one async for over it, with the arguments of
    \* the paginate call above (chain, max_items, page_size)
    aCursor,        \* paginate_async's local cursor
    aItemsYielded,  \* paginate_async's local items_yielded
    aResponse,      \* index in chain of the page last received (0: none)
    aIdx,           \* position of the for loop in that page's items
    aPc,            \* where the async generator stands
    aFetchLog,      \* the params of its fetch_page calls, in order
    aYielded        \* the items it has yielded, in order

asVars == <<aCursor, aItemsYielded, aResponse, aIdx, aPc, aFetchLog, aYielded>>

\* the components added after the first three
restVars == <<httpVars, dlVars, asVars>>

vars == <<pgVars, rtVars, wsVars, cbVars, callVars, restVars>>

\* what a step of one component leaves alone: the other components
notPg == <<rtVars, wsVars, cbVars, callVars, restVars>>
notRt == <<pgVars, wsVars, cbVars, callVars, restVars>>
notWs == <<pgVars, rtVars, restVars>>
notHttp == <<pgVars, rtVars, wsVars, cbVars, callVars, dlVars, asVars>>
notDelay == <<pgVars, rtVars, wsVars, cbVars, callVars, httpVars, asVars>>
notAsync == <<pgVars, rtVars, wsVars, cbVars, callVars, httpVars, dlVars>>

----------------------------------------------------------------------------
(* paginate *)

\* fetch_page as the server answers it: no cursor is the first page
FetchPage(params) ==
    IF params.cursor = NoneVal THEN 1 ELSE PageOf(params.cursor)

\* get_items / get_cursor
get_items(r) == chain[r].items
get_cursor(r) == chain[r].cursor

\* the params dict of one iteration of the while loop
BuildParams(cur, ps) ==
    [cursor |-> IF Truthy(cur) THEN cur ELSE NoneVal,
     limit  |-> IF TruthyInt(ps) THEN ps ELSE OptNone]

\* (mutant) the bound compared with > instead of >=
MaxReached_offByOne(n) == ~IsNone(max_items) /\ n > Val(max_items)

\* the check after each yielded item
MaxReached(n) == ~IsNone(max_items) /\ n >= Val(max_items)

\* what the consumer returns when the generator is exhausted
\* (mutant) count_all counts the pages instead of the items
Exhausted_countPages(ys) ==
    CASE pgMode = "collect_all" -> [kind |-> "list", list |-> ys, n |-> 0]
      [] pgMode = "count_all"   -> [kind |-> "int", list |-> << >>,
                                    n |-> Len(fetchLog)]
      [] OTHER                  -> [kind |-> "None", list |-> << >>, n |-> 0]

Exhausted(ys) ==
    CASE pgMode = "collect_all" -> [kind |-> "list", list |-> ys, n |-> 0]
      [] pgMode = "count_all"   -> [kind |-> "int", list |-> << >>, n |-> Len(ys)]
      [] OTHER                  -> [kind |-> "None", list |-> << >>, n |-> 0]

NoResult == [kind |-> "pending", list |-> << >>, n |-> 0]

\* the generator returns: the consumer's loop ends and it returns
GenReturn(ys) ==
    /\ pgPc' = "done"
    /\ pgRet' = TRUE
    /\ pgResult' = Exhausted(ys)

\* (mutant) the loop is left after the first page whatever its cursor
EndOfPage_noLoop(r) ==
    /\ cursor' = get_cursor(r)
    /\ GenReturn(yielded)

\* the end of a page: read its cursor, stop on a falsy one
EndOfPage(r) ==
    /\ cursor' = get_cursor(r)
    /\ IF Truthy(get_cursor(r))
         THEN pgPc' = "fetch" /\ UNCHANGED <<pgRet, pgResult>>
         ELSE GenReturn(yielded)

\* the log of fetch_page calls: the params of the last MaxFetchLog calls
\* (all of them over a finite chain, which needs at most MaxPages calls)
Logged(log, params) ==
    IF Len(log) < MaxFetchLog THEN Append(log, params)
                              ELSE Append(Tail(log), params)

\* the top of the while loop up to the for loop
PgFetch ==
    /\ pgPc = "fetch"
    /\ LET params == BuildParams(cursor, page_size)
           r == FetchPage(params)
       IN /\ fetchLog' = Logged(fetchLog, params)
          /\ response' = r
          /\ IF get_items(r) # << >>
               THEN /\ idx' = 1
                    /\ pgPc' = "yield"
                    /\ UNCHANGED <<cursor, pgRet, pgResult>>
               ELSE /\ idx' = 0
                    /\ EndOfPage(r)
    /\ UNCHANGED <<chain, pgMode, max_items, page_size, predicate,
                   items_yielded, yielded>>
    /\ UNCHANGED notPg

\* (mutant) find_first with its test inverted
FindFirstReturns_inverted(item) ==
    pgMode = "find_first" /\ ~Holds(predicate, item)

\* find_first's loop body: return the item the predicate accepts
FindFirstReturns(item) ==
    pgMode = "find_first" /\ Holds(predicate, item)

\* yield item: the generator is suspended, the consumer has the item
PgYield ==
    /\ pgPc = "yield"
    /\ LET item == get_items(response)[idx]
       IN /\ yielded' = Append(yielded, item)
          /\ IF FindFirstReturns(item)
               THEN \* find_first returns; the generator is never resumed
                    /\ pgPc' = "abandoned"
                    /\ pgRet' = TRUE
                    /\ pgResult' = [kind |-> "item", list |-> << >>, n |-> item]
               ELSE /\ pgPc' = "resume"
                    /\ UNCHANGED <<pgRet, pgResult>>
    /\ UNCHANGED <<chain, pgMode, max_items, page_size, predicate, cursor,
                   items_yielded, response, idx, fetchLog>>
    /\ UNCHANGED notPg

\* (mutant) the rest of the page is dropped when the consumer asks for
\* the next item: the next page is fetched at once
PgResume_skipRest ==
    /\ pgPc = "resume"
    /\ items_yielded' = items_yielded + 1
    /\ IF MaxReached(items_yielded + 1)
         THEN /\ GenReturn(yielded)
              /\ UNCHANGED <<cursor, idx>>
         ELSE /\ EndOfPage(response)
              /\ UNCHANGED idx
    /\ UNCHANGED <<chain, pgMode, max_items, page_size, predicate, response,
                   fetchLog, yielded>>
    /\ UNCHANGED notPg

\* the consumer asks for the next item: the rest of the for body
PgResume ==
    /\ pgPc = "resume"
    /\ items_yielded' = items_yielded + 1
    /\ IF MaxReached(items_yielded + 1)
         THEN /\ GenReturn(yielded)
              /\ UNCHANGED <<cursor, idx>>
         ELSE IF idx < Len(get_items(response))
           THEN /\ idx' = idx + 1
                /\ pgPc' = "yield"
                /\ UNCHANGED <<cursor, pgRet, pgResult>>
           ELSE /\ EndOfPage(response)
                /\ UNCHANGED idx
    /\ UNCHANGED <<chain, pgMode, max_items, page_size, predicate, response,
                   fetchLog, yielded>>
    /\ UNCHANGED notPg

PgInit ==
    /\ chain \in Chains
    /\ \/ /\ pgMode = "collect_all"
          /\ max_items \in {OptNone} \cup {Some(m) : m \in 0..MaxMaxItems}
          /\ page_size \in {OptNone, Some(0), Some(50)}
          /\ predicate = NoPredicate
       \/ /\ pgMode = "count_all"
          /\ max_items = OptNone
          /\ page_size = OptNone
          /\ predicate = NoPredicate
       \/ /\ pgMode = "find_first"
          /\ max_items = OptNone
          /\ page_size = OptNone
          /\ predicate \in Predicates
    /\ cursor = NoneVal
    /\ items_yielded = 0
    /\ response = 0
    /\ idx = 0
    /\ pgPc = "fetch"
    /\ fetchLog = << >>
    /\ yielded = << >>
    /\ pgRet = FALSE
    /\ pgResult = NoResult

\* the server's cursor chain ends
Finite(ch) == ~Truthy(ch[Len(ch)].cursor)

\* a consumer that pulls until the generator is exhausted (list(paginate(
\* ...)), collect_all), over a chain that ends or one that never does;
\* without max_items the pages of an endless chain are empty ones
PgInitEndless ==
    /\ chain \in Chains \cup CyclicChains
    /\ pgMode = "collect_all"
    /\ max_items \in {OptNone} \cup {Some(m) : m \in 0..MaxMaxItems}
    /\ IsNone(max_items) => (Finite(chain) \/ ConcatItems(chain) = << >>)
    /\ page_size = OptNone
    /\ predicate = NoPredicate
    /\ cursor = NoneVal
    /\ items_yielded = 0
    /\ response = 0
    /\ idx = 0
    /\ pgPc = "fetch"
    /\ fetchLog = << >>
    /\ yielded = << >>
    /\ pgRet = FALSE
    /\ pgResult = NoResult

----------------------------------------------------------------------------
(* Errors and the retry predicate *)

RateLimitStatus == 429
ServerErrorMin == 500

\* the HTTP statuses a DFlowApiError is tried with
Statuses == {400, 404, 428, 429, 430, 499, 500, 501, 503}

\* what self._client.get / self._client.post raise when no response is
\* received: connection refused or DNS failure, and the two timeouts
TransportErrors ==
    {"httpx.ConnectError", "httpx.ConnectTimeout", "httpx.ReadTimeout"}

\* the exception classes tried, each with its base class
Base(c) ==
    CASE c = "ConnectionRefusedError" -> "ConnectionError"
      [] c = "httpx.ConnectError"     -> "httpx.NetworkError"
      [] c = "httpx.NetworkError"     -> "httpx.TransportError"
      [] c = "httpx.ConnectTimeout"   -> "httpx.TimeoutException"
      [] c = "httpx.ReadTimeout"      -> "httpx.TimeoutException"
      [] c = "httpx.TimeoutException" -> "httpx.TransportError"
      [] c = "httpx.TransportError"   -> "httpx.RequestError"
      [] c = "httpx.RequestError"     -> "httpx.HTTPError"
      [] c = "httpx.HTTPError"        -> "Exception"
      [] c = "ConnectionError"        -> "OSError"
      [] c = "TimeoutError"           -> "OSError"
      [] c = "OSError"                -> "Exception"
      [] c = "DFlowApiError"          -> "Exception"
      [] c = "ValueError"             -> "Exception"
      [] OTHER                        -> "BaseException"

RECURSIVE IsSubclass(_, _)
IsSubclass(c, d) ==
    IF c = d THEN TRUE
    ELSE IF c = "BaseException" THEN FALSE
    ELSE IsSubclass(Base(c), d)

\* isinstance(error, cls)
IsInstance(e, cls) == IsSubclass(e.kind, cls)

\* the errors fn raises; id tells the error objects apart (the invocation
\* that raised it)
ErrorsOf(i) ==
    [kind : {"DFlowApiError"}, status_code : Statuses, id : {i}]
    \cup [kind : {"ConnectionError", "ConnectionRefusedError", "TimeoutError",
                  "ValueError"} \cup TransportErrors,
          status_code : {0}, id : {i}]

NoError == [kind |-> "none", status_code |-> 0, id |-> 0]

\* what one invocation of fn does
OutcomesOf(i) ==
    [kind : {"ok"}, value : {"v1", "v2"}, error : {NoError}]
    \cup [kind : {"err"}, value : {NoneVal}, error : ErrorsOf(i)]

NoOutcome == [kind |-> "none", value |-> NoneVal, error |-> NoError]

\* (mutant) every 4xx and 5xx status retried
default_should_retry_any4xx(error, att) ==
    IF IsInstance(error, "DFlowApiError")
      THEN error.status_code >= 400
      ELSE IsInstance(error, "ConnectionError")
           \/ IsInstance(error, "TimeoutError")

default_should_retry(error, att) ==
    IF IsInstance(error, "DFlowApiError")
      THEN error.status_code = RateLimitStatus
           \/ error.status_code >= ServerErrorMin
      ELSE IF IsInstance(error, "ConnectionError")
              \/ IsInstance(error, "TimeoutError")
        THEN TRUE
        ELSE FALSE

\* the should_retry arguments tried: None, and lambda e, a: a < k
Policies ==
    {[kind |-> "None", k |-> 0]}
    \cup [kind : {"custom"}, k : 0..(MaxRetries + 1)]

\* retry_check = should_retry or default_should_retry
retry_check(error, att) ==
    IF should_retry.kind = "None"
      THEN default_should_retry(error, att)
      ELSE att < should_retry.k

----------------------------------------------------------------------------
(* with_retry *)

\* (mutant) the error of the first failed attempt is raised at the end
Reraise_first(e) ==
    /\ rtPc' = "raised"
    /\ rtRaised' = IF last_error = NoError THEN e ELSE last_error

\* raise: the error in hand leaves with_retry as it is
Reraise(e) ==
    /\ rtPc' = "raised"
    /\ rtRaised' = e

\* (mutant) one retry too few
BudgetLeft_short(att) == att < max_retries - 1

\* attempt < max_retries
BudgetLeft(att) == att < max_retries

\* (mutant) the predicate's verdict is ignored
Retrying_always(e) == BudgetLeft(attempt)

\* if attempt < max_retries and retry_check(e, attempt)
Retrying(e) == BudgetLeft(attempt) /\ retry_check(e, attempt)

\* (mutant) the delay computed from a 1-based attempt number
DelayIndex_oneBased(att) == att + 1

\* _calculate_delay(attempt, ...): the index the delay is computed from
DelayIndex(att) == att

\* one iteration of the for loop
RtInvoke ==
    /\ rtPc = "call"
    /\ \E o \in OutcomesOf(calls + 1) :
         /\ calls' = calls + 1
         /\ fnArgs' = wrArgs
         /\ lastOutcome' = o
         /\ IF o.kind = "ok"
              THEN /\ rtPc' = "returned"
                   /\ rtResult' = o.value
                   /\ UNCHANGED <<attempt, last_error, rtRaised, waits,
                                  lastCheck, nFail, allRetryable>>
              ELSE /\ last_error' = o.error
                   /\ nFail' = nFail + 1
                   /\ allRetryable' =
                        (allRetryable /\ retry_check(o.error, calls))
                   /\ lastCheck' =
                        IF BudgetLeft(attempt)
                          THEN [error |-> o.error, attempt |-> attempt,
                                verdict |-> retry_check(o.error, attempt)]
                          ELSE lastCheck
                   /\ IF Retrying(o.error)
                        THEN /\ waits' = Append(waits, DelayIndex(attempt))
                             /\ attempt' = attempt + 1
                             /\ UNCHANGED <<rtPc, rtRaised>>
                        ELSE /\ Reraise(o.error)
                             /\ UNCHANGED <<attempt, waits>>
                   /\ UNCHANGED rtResult
    /\ UNCHANGED <<max_retries, should_retry, wrCalls, wrArgs, prevCalls>>
    /\ UNCHANGED notRt

\* with_retry called directly: fn is a closure without arguments
NoWrapper ==
    /\ wrCalls = 0
    /\ wrArgs = NoneVal
    /\ fnArgs = NoneVal
    /\ prevCalls = 0

NoCheck == [error |-> NoError, attempt |-> 0, verdict |-> FALSE]

RtInit ==
    /\ max_retries \in 0..MaxRetries
    /\ should_retry \in Policies
    /\ attempt = 0
    /\ last_error = NoError
    /\ rtPc = "call"
    /\ rtResult = NoneVal
    /\ rtRaised = NoError
    /\ waits = << >>
    /\ calls = 0
    /\ lastOutcome = NoOutcome
    /\ lastCheck = NoCheck
    /\ nFail = 0
    /\ allRetryable = TRUE
    /\ NoWrapper

\* the state of a with_retry that is not being called
RtIdle ==
    /\ max_retries = 0
    /\ should_retry = [kind |-> "None", k |-> 0]
    /\ attempt = 0
    /\ last_error = NoError
    /\ rtPc = "idle"
    /\ rtResult = NoneVal
    /\ rtRaised = NoError
    /\ waits = << >>
    /\ calls = 0
    /\ lastOutcome = NoOutcome
    /\ lastCheck = NoCheck
    /\ nFail = 0
    /\ allRetryable = TRUE
    /\ NoWrapper

\* the state of a pagination that is not running
PgIdle ==
    /\ chain = << >>
    /\ pgMode = "idle"
    /\ max_items = OptNone
    /\ page_size = OptNone
    /\ predicate = NoPredicate
    /\ cursor = NoneVal
    /\ items_yielded = 0
    /\ response = 0
    /\ idx = 0
    /\ pgPc = "idle"
    /\ fetchLog = << >>
    /\ yielded = << >>
    /\ pgRet = FALSE
    /\ pgResult = NoResult

----------------------------------------------------------------------------
(* create_retryable *)

\* the arguments wrapper is called with
WrapperArgs == {"a1", "a2"}

\* (mutant) the loop of a later call goes on where the last one stopped
FirstAttempt_carried == attempt

\* for attempt in range(max_retries + 1): the index a call starts from
FirstAttempt == 0

\* wrapper(*args, **kwargs): a call of with_retry with the policy
\* create_retryable was given and fn bound to this call's arguments
wrapper ==
    /\ rtPc \in {"created", "returned", "raised"}
    /\ wrCalls < MaxWrapperCalls
    /\ wrCalls' = wrCalls + 1
    /\ prevCalls' = calls
    /\ \E a \in WrapperArgs : wrArgs' = a
    /\ attempt' = FirstAttempt
    /\ last_error' = NoError
    /\ rtPc' = "call"
    /\ rtResult' = NoneVal
    /\ rtRaised' = NoError
    /\ waits' = << >>
    /\ calls' = 0
    /\ lastOutcome' = NoOutcome
    /\ lastCheck' = NoCheck
    /\ nFail' = 0
    /\ allRetryable' = TRUE
    /\ UNCHANGED <<max_retries, should_retry, fnArgs>>
    /\ UNCHANGED notRt

\* create_retryable(fn, max_retries, ..., should_retry) has returned wrapper
RetryableInit ==
    /\ max_retries \in 0..MaxRetries
    /\ should_retry \in Policies
    /\ attempt = 0
    /\ last_error = NoError
    /\ rtPc = "created"
    /\ rtResult = NoneVal
    /\ rtRaised = NoError
    /\ waits = << >>
    /\ calls = 0
    /\ lastOutcome = NoOutcome
    /\ lastCheck = NoCheck
    /\ nFail = 0
    /\ allRetryable = TRUE
    /\ wrCalls = 0
    /\ wrArgs = NoneVal
    /\ fnArgs = NoneVal
    /\ prevCalls = 0

----------------------------------------------------------------------------
(* DFlowWebSocket: connection life cycle *)

DefaultMaxReconnect == 10

Events == {"price", "trade", "orderbook", "error", "close"}

\* a transport's .closed
Closed(t) == transports[t] # "open"

\* is_connected: self._ws is not None and not self._ws.closed
IsConnected == ws # 0 /\ ~Closed(ws)

Alive(pc) == pc \in {"listening", "sleeping", "handshake"}

SetPc(i, pc) == [tasks EXCEPT ![i].pc = pc]

\* (mutant) the counter is not reset by a successful handshake
ConnectSucceeds_noReset(ts) ==
    /\ Len(transports) < MaxTransports
    /\ transports' = Append(transports, "open")
    /\ ws' = Len(transports) + 1
    /\ is_connecting' = FALSE
    /\ UNCHANGED reconnect_attempts
    /\ tasks' = Append(ts, [pc |-> "listening", ws |-> Len(transports) + 1])
    /\ listen_task' = Len(ts) + 1

\* connect(): websockets.connect returned a connection; ts is the task
\* list as the caller leaves it
ConnectSucceeds(ts) ==
    /\ Len(transports) < MaxTransports
    /\ transports' = Append(transports, "open")
    /\ ws' = Len(transports) + 1
    /\ is_connecting' = FALSE
    /\ reconnect_attempts' = 0
    /\ tasks' = Append(ts, [pc |-> "listening", ws |-> Len(transports) + 1])
    /\ listen_task' = Len(ts) + 1

\* (mutant) connect() without the test of the connecting flag
ConnectReturnsAtOnce_noFlag == IsConnected

\* connect(): the two early returns
ConnectReturnsAtOnce == IsConnected \/ is_connecting

\* connect() called by the user, up to the await of the handshake; a call
\* that returns at once can come from any coroutine of the user
UserConnect ==
    /\ connectCalls < MaxConnectCalls
    /\ connectCalls' = connectCalls + 1
    /\ IF ConnectReturnsAtOnce
         THEN /\ lastConnect' = "returned at once"
              /\ UNCHANGED <<is_connecting, userPc, userRaised, interfered,
                             disconnected>>
         ELSE /\ userPc = "idle"
              /\ lastConnect' = "handshake"
              /\ is_connecting' = TRUE
              /\ userPc' = "handshake"
              /\ userRaised' = FALSE
              /\ interfered' = (interfered \/ transports # << >>)
              /\ disconnected' = FALSE
    /\ UNCHANGED <<reconnect, max_reconnect_attempts, ws, reconnect_attempts,
                   listen_task, transports, tasks, reconnTries,
                   terminalErrors, closeRounds>>
    /\ UNCHANGED cbVars
    /\ UNCHANGED notWs
    /\ UNCHANGED lastSend

\* the user's handshake succeeds
UserHandshakeOk ==
    /\ userPc = "handshake"
    /\ ConnectSucceeds(tasks)
    /\ userPc' = "idle"
    /\ UNCHANGED <<reconnect, max_reconnect_attempts, userRaised, reconnTries,
                   terminalErrors, closeRounds, interfered>>
    /\ UNCHANGED cbVars
    /\ UNCHANGED notWs
    /\ UNCHANGED callVars

\* (mutant) the connecting flag is left set when the handshake fails
UserHandshakeFail_keepFlag ==
    /\ userPc = "handshake"
    /\ userPc' = "idle"
    /\ userRaised' = TRUE
    /\ UNCHANGED <<reconnect, max_reconnect_attempts, ws, reconnect_attempts,
                   is_connecting, listen_task, transports, tasks, reconnTries,
                   terminalErrors, closeRounds, interfered>>
    /\ UNCHANGED cbVars
    /\ UNCHANGED notWs
    /\ UNCHANGED callVars

\* the user's handshake fails: the exception is raised to the caller
UserHandshakeFail ==
    /\ userPc = "handshake"
    /\ is_connecting' = FALSE
    /\ userPc' = "idle"
    /\ userRaised' = TRUE
    /\ UNCHANGED <<reconnect, max_reconnect_attempts, ws, reconnect_attempts,
                   listen_task, transports, tasks, reconnTries,
                   terminalErrors, closeRounds, interfered>>
    /\ UNCHANGED cbVars
    /\ UNCHANGED notWs
    /\ UNCHANGED callVars

\* the environment: an open transport is closed by the peer or the network,
\* abnormally (ConnectionClosedError in the listener) or with a normal
\* close code (the listener's async for just ends)
TransportDrop ==
    /\ \E t \in 1..Len(transports), how \in {"closedErr", "closedOK"} :
         /\ transports[t] = "open"
         /\ transports' = [transports EXCEPT ![t] = how]
    /\ UNCHANGED <<reconnect, max_reconnect_attempts, ws, reconnect_attempts,
                   is_connecting, listen_task, tasks, userPc, userRaised,
                   reconnTries, terminalErrors, closeRounds, interfered>>
    /\ UNCHANGED cbVars
    /\ UNCHANGED notWs
    /\ UNCHANGED callVars

\* (mutant) the budget compared with > instead of >=
AttemptReconnect_offByOne(i) ==
    IF ~reconnect
      THEN /\ tasks' = SetPc(i, "done")
           /\ UNCHANGED <<reconnect_attempts, terminalErrors>>
      ELSE IF reconnect_attempts > max_reconnect_attempts
        THEN /\ terminalErrors' = terminalErrors + 1
             /\ tasks' = SetPc(i, "done")
             /\ UNCHANGED reconnect_attempts
        ELSE /\ reconnect_attempts' = reconnect_attempts + 1
             /\ tasks' = SetPc(i, "sleeping")
             /\ UNCHANGED terminalErrors

\* _attempt_reconnect up to its await asyncio.sleep, run by task i
AttemptReconnect(i) ==
    IF ~reconnect
      THEN /\ tasks' = SetPc(i, "done")
           /\ UNCHANGED <<reconnect_attempts, terminalErrors>>
      ELSE IF reconnect_attempts >= max_reconnect_attempts
        THEN /\ terminalErrors' = terminalErrors + 1
             /\ tasks' = SetPc(i, "done")
             /\ UNCHANGED reconnect_attempts
        ELSE /\ reconnect_attempts' = reconnect_attempts + 1
             /\ tasks' = SetPc(i, "sleeping")
             /\ UNCHANGED terminalErrors

\* _listen: the async for of task i ends because its transport is closed
ListenerSeesClose ==
    /\ \E i \in 1..Len(tasks) :
         /\ tasks[i].pc = "listening"
         /\ Closed(tasks[i].ws)
         /\ IF transports[tasks[i].ws] = "closedErr"
              THEN \* except websockets.ConnectionClosed
                   /\ closeRounds' = closeRounds + 1
                   /\ AttemptReconnect(i)
              ELSE \* the iterator is exhausted: _listen returns
                   /\ tasks' = SetPc(i, "done")
                   /\ UNCHANGED <<closeRounds, reconnect_attempts,
                                  terminalErrors>>
    /\ UNCHANGED <<reconnect, max_reconnect_attempts, ws, is_connecting,
                   listen_task, transports, userPc, userRaised, reconnTries,
                   interfered>>
    /\ UNCHANGED cbVars
    /\ UNCHANGED notWs
    /\ UNCHANGED callVars

\* _attempt_reconnect after the sleep: connect() up to the handshake
ReconnectWake ==
    /\ \E i \in 1..Len(tasks) :
         /\ tasks[i].pc = "sleeping"
         /\ IF ConnectReturnsAtOnce
              THEN \* connect() returns at once, and so does the task
                   /\ tasks' = SetPc(i, "done")
                   /\ UNCHANGED <<is_connecting, reconnTries>>
              ELSE /\ is_connecting' = TRUE
                   /\ reconnTries' = reconnTries + 1
                   /\ tasks' = SetPc(i, "handshake")
    /\ UNCHANGED <<reconnect, max_reconnect_attempts, ws, reconnect_attempts,
                   listen_task, transports, userPc, userRaised,
                   terminalErrors, closeRounds, interfered>>
    /\ UNCHANGED cbVars
    /\ UNCHANGED notWs
    /\ UNCHANGED callVars

\* (mutant) a successful reconnect subscribes again on the new transport
ReconnectOk_resubscribes ==
    /\ \E i \in 1..Len(tasks) :
         /\ tasks[i].pc = "handshake"
         /\ ConnectSucceeds(SetPc(i, "done"))
    /\ lastSend' = [op |-> "subscribe_all", tickers |-> OptNone,
                    connected |-> TRUE, raised |-> FALSE,
                    wrote |-> Len(transports) + 1,
                    frame |-> <<[type |-> "subscribe", channel |-> "prices",
                                 hasAll |-> TRUE, hasTickers |-> FALSE,
                                 tickers |-> << >>]>>]
    /\ UNCHANGED <<reconnect, max_reconnect_attempts, userPc, userRaised,
                   reconnTries, terminalErrors, closeRounds, interfered>>
    /\ UNCHANGED cbVars
    /\ UNCHANGED notWs
    /\ UNCHANGED <<connectCalls, lastConnect, disconnected>>

\* the handshake of a reconnect succeeds
ReconnectOk ==
    /\ \E i \in 1..Len(tasks) :
         /\ tasks[i].pc = "handshake"
         /\ ConnectSucceeds(SetPc(i, "done"))
    /\ UNCHANGED <<reconnect, max_reconnect_attempts, userPc, userRaised,
                   reconnTries, terminalErrors, closeRounds, interfered>>
    /\ UNCHANGED cbVars
    /\ UNCHANGED notWs
    /\ UNCHANGED callVars

\* the handshake of a reconnect fails: connect() raises, _attempt_reconnect
\* swallows the exception and returns, and with it _listen: the task ends
ReconnectFail ==
    /\ \E i \in 1..Len(tasks) :
         /\ tasks[i].pc = "handshake"
         /\ is_connecting' = FALSE
         /\ tasks' = SetPc(i, "done")
    /\ UNCHANGED <<reconnect, max_reconnect_attempts, ws, reconnect_attempts,
                   listen_task, transports, userPc, userRaised, reconnTries,
                   terminalErrors, closeRounds, interfered>>
    /\ UNCHANGED cbVars
    /\ UNCHANGED notWs
    /\ UNCHANGED callVars

\* disconnect()
Disconnect ==
    /\ reconnect' = FALSE
    /\ IF listen_task # 0
         THEN \* Task.cancel(): CancelledError at the await the task is at
              /\ tasks' = IF Alive(tasks[listen_task].pc)
                            THEN SetPc(listen_task, "cancelled")
                            ELSE tasks
              /\ listen_task' = 0
         ELSE UNCHANGED <<tasks, listen_task>>
    /\ IF ws # 0
         THEN \* asyncio.create_task(self._ws.close())
              /\ transports' = IF Closed(ws) THEN transports
                               ELSE [transports EXCEPT ![ws] = "closedOK"]
              /\ ws' = 0
         ELSE UNCHANGED <<transports, ws>>
    /\ interfered' = TRUE
    /\ disconnected' = TRUE
    /\ UNCHANGED <<max_reconnect_attempts, reconnect_attempts, is_connecting,
                   userPc, userRaised, reconnTries, terminalErrors,
                   closeRounds>>
    /\ UNCHANGED cbVars
    /\ UNCHANGED notWs
    /\ UNCHANGED <<lastSend, connectCalls, lastConnect>>

\* __init__, the connection part
WsInit ==
    /\ reconnect \in BOOLEAN
    /\ max_reconnect_attempts \in 0..MaxReconnect
    /\ ws = 0
    /\ reconnect_attempts = 0
    /\ is_connecting = FALSE
    /\ listen_task = 0
    /\ transports = << >>
    /\ tasks = << >>
    /\ userPc = "idle"
    /\ userRaised = FALSE
    /\ reconnTries = 0
    /\ terminalErrors = 0
    /\ closeRounds = 0
    /\ interfered = FALSE

\* __init__, the callback lists
CbInit ==
    /\ callbacks = [e \in Events |-> << >>]
    /\ disposers = << >>
    /\ cbRaised = FALSE
    /\ fired = << >>
    /\ lastDispatch = [msg |-> [json |-> "none", channel |-> "missing",
                                valid |-> FALSE],
                       before |-> [e \in Events |-> << >>],
                       beh |-> [bad |-> "none", kind |-> "return", d |-> 0],
                       raised |-> FALSE, escaped |-> FALSE]

\* no call made yet
NoSend == [op |-> "none", tickers |-> OptNone, connected |-> FALSE,
           raised |-> FALSE, wrote |-> 0, frame |-> << >>]

CallInit ==
    /\ lastSend = NoSend
    /\ connectCalls = 0
    /\ lastConnect = "none"
    /\ disconnected = FALSE

\* no client constructed
WsIdle ==
    /\ reconnect = FALSE
    /\ max_reconnect_attempts = 0
    /\ ws = 0
    /\ reconnect_attempts = 0
    /\ is_connecting = FALSE
    /\ listen_task = 0
    /\ transports = << >>
    /\ tasks = << >>
    /\ userPc = "none"
    /\ userRaised = FALSE
    /\ reconnTries = 0
    /\ terminalErrors = 0
    /\ closeRounds = 0
    /\ interfered = FALSE
    /\ CbInit
    /\ CallInit

----------------------------------------------------------------------------
(* DFlowWebSocket: control frames *)

Channels == {"prices", "trades", "orderbook"}

\* the tickers arguments tried: an empty list and a list of one ticker
TickerLists == {<< >>, <<"T1">>}

\* the optional tickers argument of unsubscribe (OptNone: not passed)
OptTickerLists == {OptNone} \cup {Some(t) : t \in TickerLists}

\* {"type": type, "channel": channel, "tickers": tickers}
TickerFrame(type, channel, tickers) ==
    [type |-> type, channel |-> channel, hasAll |-> FALSE,
     hasTickers |-> TRUE, tickers |-> tickers]

\* {"type": type, "channel": channel, "all": True}
AllFrame(type, channel) ==
    [type |-> type, channel |-> channel, hasAll |-> TRUE,
     hasTickers |-> FALSE, tickers |-> << >>]

\* where the client stands in its life cycle
Phases ==
    (IF transports = << >> THEN {"never connected"} ELSE {})
    \cup (IF userPc = "handshake"
             \/ \E i \in 1..Len(tasks) : tasks[i].pc = "handshake"
            THEN {"handshake"} ELSE {})
    \cup (IF ws # 0 /\ Closed(ws) THEN {"transport closed"} ELSE {})
    \cup (IF \E i \in 1..Len(tasks) : tasks[i].pc = "sleeping"
            THEN {"waiting to reconnect"} ELSE {})
    \cup (IF disconnected THEN {"disconnected"} ELSE {})

\* (mutant) only a missing transport is refused
SendRefused_noneOnly == ws = 0

\* _send: if self._ws is None or self._ws.closed
SendRefused == ws = 0 \/ Closed(ws)

\* _send(message), called by op with the argument tickers
Send(op, tickers, frame) ==
    /\ lastSend' =
         [op |-> op, tickers |-> tickers, connected |-> IsConnected,
          raised |-> SendRefused,
          wrote |-> IF SendRefused THEN 0 ELSE ws,
          frame |-> IF SendRefused THEN << >> ELSE <<frame>>]
    /\ UNCHANGED <<connectCalls, lastConnect, disconnected>>
    /\ UNCHANGED wsVars
    /\ UNCHANGED cbVars
    /\ UNCHANGED notWs

\* subscribe_prices / subscribe_trades / subscribe_orderbook (tickers)
Subscribe(channel) ==
    \E tickers \in TickerLists :
        Send("subscribe", Some(tickers),
             TickerFrame("subscribe", channel, tickers))

subscribe_prices == Subscribe("prices")
subscribe_trades == Subscribe("trades")
subscribe_orderbook == Subscribe("orderbook")

\* subscribe_all_prices / subscribe_all_trades / subscribe_all_orderbook
SubscribeAll(channel) ==
    Send("subscribe_all", OptNone, AllFrame("subscribe", channel))

subscribe_all_prices == SubscribeAll("prices")
subscribe_all_trades == SubscribeAll("trades")
subscribe_all_orderbook == SubscribeAll("orderbook")

\* unsubscribe(channel, tickers=None)
unsubscribe ==
    \E channel \in Channels, tickers \in OptTickerLists :
        IF ~IsNone(tickers) /\ Val(tickers) # << >>
          THEN Send("unsubscribe", tickers,
                    TickerFrame("unsubscribe", channel, Val(tickers)))
          ELSE Send("unsubscribe", tickers, AllFrame("unsubscribe", channel))

----------------------------------------------------------------------------
(* DFlowWebSocket: callback lists and the dispatch of inbound messages *)

\* the callback functions the user registers
Callbacks == {"A", "B"}

\* list.remove(x): drop the first element equal to x (x is in the list)
RECURSIVE RemoveFirst(_, _)
RemoveFirst(list, x) ==
    IF list = << >> THEN << >>
    ELSE IF Head(list) = x THEN Tail(list)
    ELSE <<Head(list)>> \o RemoveFirst(Tail(list), x)

InList(list, x) == \E i \in 1..Len(list) : list[i] = x

\* the inbound frames tried: text that is not JSON, JSON that is not an
\* object, an object of each channel that fits the channel's schema, a
\* prices object that does not, and objects with an unknown channel value
\* and with none
Messages ==
    {[json |-> "invalid", channel |-> "missing", valid |-> FALSE],
     [json |-> "array", channel |-> "missing", valid |-> FALSE],
     [json |-> "object", channel |-> "prices", valid |-> FALSE],
     [json |-> "object", channel |-> "unknown", valid |-> TRUE],
     [json |-> "object", channel |-> "missing", valid |-> TRUE]}
    \cup [json : {"object"}, channel : {"prices", "trades", "orderbook"},
          valid : {TRUE}]

NoMessage == [json |-> "none", channel |-> "missing", valid |-> FALSE]

NoLists == [e \in Events |-> << >>]

\* what the callbacks do when nothing misbehaves
WellBehaved == [bad |-> "none", kind |-> "return", d |-> 0]

NoDispatch == [msg |-> NoMessage, before |-> NoLists, beh |-> WellBehaved,
               raised |-> FALSE, escaped |-> FALSE]

\* on_<event>(callback): append, and return the disposer
Register(e) ==
    /\ Len(disposers) < MaxRegs
    /\ \E cb \in Callbacks :
         /\ callbacks' = [callbacks EXCEPT ![e] = Append(@, cb)]
         /\ disposers' = Append(disposers,
                                [event |-> e, cb |-> cb, calls |-> 0])
    /\ fired' = << >>
    /\ lastDispatch' = NoDispatch
    /\ UNCHANGED cbRaised
    /\ UNCHANGED wsVars
    /\ UNCHANGED notWs
    /\ UNCHANGED callVars

on_price == Register("price")
on_trade == Register("trade")
on_orderbook == Register("orderbook")
on_error == Register("error")
on_close == Register("close")

\* the client's callback state while code runs on it: the lists, the
\* disposers, the invocations made so far and whether an exception is
\* propagating
Running(lists, disp) ==
    [lists |-> lists, disp |-> disp, fired |-> << >>, raised |-> FALSE]

\* disposer d runs: self._<event>_callbacks.remove(callback)
Removed(st, d) ==
    LET e == st.disp[d].event
        cb == st.disp[d].cb
        n == st.disp[d].calls
        counted == [st EXCEPT !.disp[d].calls =
                                 IF n < MaxDisposeCalls THEN n + 1 ELSE n]
    IN IF InList(st.lists[e], cb)
         THEN [counted EXCEPT !.lists[e] = RemoveFirst(@, cb)]
         ELSE \* list.remove raises ValueError
              [counted EXCEPT !.raised = TRUE]

\* a call of disposer d by the user
Dispose(d) ==
    /\ disposers[d].calls < MaxDisposeCalls
    /\ LET st == Removed(Running(callbacks, disposers), d)
       IN /\ callbacks' = st.lists
          /\ disposers' = st.disp
          /\ cbRaised' = st.raised
    /\ fired' = << >>
    /\ lastDispatch' = NoDispatch
    /\ UNCHANGED wsVars
    /\ UNCHANGED notWs
    /\ UNCHANGED callVars

CallDisposer == \E d \in 1..Len(disposers) : Dispose(d)

\* what the user's callbacks do when invoked: A always returns; B returns,
\* or raises, or calls disposer d and returns
Behaviours ==
    {WellBehaved}
    \cup [bad : {"B"}, kind : {"raise"}, d : {0}]
    \cup [bad : {"B"}, kind : {"dispose"}, d : 1..Len(disposers)]

EventOf(channel) ==
    CASE channel = "prices"    -> "price"
      [] channel = "trades"    -> "trade"
      [] channel = "orderbook" -> "orderbook"
      [] OTHER                 -> "none"

\* for cb in self._<event>_callbacks: cb(arg), from position i of the live
\* list on; an exception of a callback ends the loop
RECURSIVE ForEach(_, _, _, _)
ForEach(st, e, i, beh) ==
    IF i > Len(st.lists[e]) THEN st
    ELSE LET cb == st.lists[e][i]
             called == [st EXCEPT !.fired = Append(@, [event |-> e, cb |-> cb])]
         IN IF cb # beh.bad THEN ForEach(called, e, i + 1, beh)
            ELSE IF beh.kind = "raise" THEN [called EXCEPT !.raised = TRUE]
            ELSE LET after == Removed(called, beh.d)
                 IN IF after.raised THEN after
                    ELSE ForEach(after, e, i + 1, beh)

\* except Exception as e: for cb in self._error_callbacks: cb(e)
OnException(st, beh) ==
    ForEach([st EXCEPT !.raised = FALSE], "error", 1, beh)

\* the try block of _handle_message; raised: an exception leaves it
TryBlock(st, m, beh) ==
    IF m.json # "object" THEN [st EXCEPT !.raised = TRUE]
    ELSE IF EventOf(m.channel) = "none" THEN st
    ELSE IF ~m.valid THEN [st EXCEPT !.raised = TRUE]
    ELSE ForEach(st, EventOf(m.channel), 1, beh)

\* _handle_message(message); raised: an exception leaves it
Dispatch(st, m, beh) ==
    LET body == TryBlock(st, m, beh)
    IN IF body.raised THEN OnException(body, beh) ELSE body

\* _listen: one message read from the open transport and handled
HandleMessage ==
    /\ \E i \in 1..Len(tasks), m \in Messages, beh \in Behaviours :
         /\ tasks[i].pc = "listening"
         /\ ~Closed(tasks[i].ws)
         /\ LET handled == Dispatch(Running(callbacks, disposers), m, beh)
                \* _listen: except Exception as e
                caught == OnException(handled, beh)
                st == IF handled.raised THEN caught ELSE handled
            IN /\ lastDispatch' =
                    [msg |-> m, before |-> callbacks, beh |-> beh,
                     raised |-> TryBlock(Running(callbacks, disposers),
                                         m, beh).raised,
                     escaped |-> handled.raised]
               /\ callbacks' = st.lists
               /\ disposers' = st.disp
               /\ fired' = st.fired
               /\ IF ~handled.raised
                    THEN UNCHANGED <<tasks, reconnect_attempts,
                                     terminalErrors>>
                    ELSE IF caught.raised
                      THEN \* the exception ends the task
                           /\ tasks' = SetPc(i, "failed")
                           /\ UNCHANGED <<reconnect_attempts, terminalErrors>>
                      ELSE AttemptReconnect(i)
    /\ UNCHANGED cbRaised
    /\ UNCHANGED <<reconnect, max_reconnect_attempts, ws, is_connecting,
                   listen_task, transports, userPc, userRaised, reconnTries,
                   closeRounds, interfered>>
    /\ UNCHANGED notWs
    /\ UNCHANGED callVars

\* a client after __init__() with the defaults and a successful connect()
WsConnected ==
    /\ reconnect = TRUE
    /\ max_reconnect_attempts = DefaultMaxReconnect
    /\ ws = 1
    /\ reconnect_attempts = 0
    /\ is_connecting = FALSE
    /\ listen_task = 1
    /\ transports = <<"open">>
    /\ tasks = <<[pc |-> "listening", ws |-> 1]>>
    /\ userPc = "idle"
    /\ userRaised = FALSE
    /\ reconnTries = 0
    /\ terminalErrors = 0
    /\ closeRounds = 0
    /\ interfered = FALSE

----------------------------------------------------------------------------
(* HttpClient and the endpoint wrappers with a size limit *)

\* MAX_BATCH_SIZE, MAX_FILTER_ADDRESSES
MAX_BATCH_SIZE == 100
MAX_FILTER_ADDRESSES == 200

\* the status codes the server answers with
HttpStatuses == {100, 199, 200, 201, 204, 299, 300, 304, 399} \cup Statuses

\* the response bodies: the text received and whether it is valid JSON
Bodies ==
    {[text |-> "{\"markets\": []}", json |-> TRUE],
     [text |-> "{\"error\": \"Not found\"}", json |-> TRUE],
     [text |-> "<html>Bad Gateway</html>", json |-> FALSE],
     [text |-> "", json |-> FALSE]}

Responses == [status_code : HttpStatuses, body : Bodies]

NoResponse == [status_code |-> 0, body |-> [text |-> "", json |-> FALSE]]

\* response.json(): the decoded value of a JSON text
Decoded(text) == <<"decoded", text>>

\* (mutant) redirects count as success
is_success_below400(status) == status >= 200 /\ status < 400

\* httpx.Response.is_success
is_success(status) == status >= 200 /\ status <= 299

NoHttpResult == [kind |-> "none", value |-> << >>, error |-> "none",
             status_code |-> 0, response |-> << >>]

Returned(value) == [NoHttpResult EXCEPT !.kind = "return", !.value = value]

\* raise DFlowApiError(message, status_code, response)
ApiError(status, body) ==
    [NoHttpResult EXCEPT !.kind = "raise", !.error = "DFlowApiError",
                     !.status_code = status, !.response = body]

Raised(error) == [NoHttpResult EXCEPT !.kind = "raise", !.error = error]

\* HttpClient._handle_response
_handle_response(r) ==
    IF ~is_success(r.status_code)
      THEN ApiError(r.status_code,
                    IF r.body.json THEN Decoded(r.body.text)
                    ELSE <<"text", r.body.text>>)
      ELSE IF r.body.json THEN Returned(Decoded(r.body.text))
      ELSE ApiError(r.status_code, <<"text", r.body.text>>)

\* the query parameter names and values tried; the empty string is a
\* value that is falsy but not None
ParamKeys == {"status", "cursor", "limit"}
ParamValues == {NoneVal, "", "active"}

\* the params argument of get: None, or a dict over some of the keys
ParamDicts == UNION {[K -> ParamValues] : K \in SUBSET ParamKeys}
ParamArgs == {OptNone} \cup {Some(d) : d \in ParamDicts}

\* (mutant) falsy values are dropped as well
KeepParam_truthy(v) == v # NoneVal /\ v # ""

\* get: if v is not None
KeepParam(v) == v # NoneVal

\* get: clean_params (OptNone: None)
CleanParams(params) ==
    IF IsNone(params) \/ DOMAIN Val(params) = {}
      THEN OptNone
      ELSE LET d == Val(params)
               kept == {k \in DOMAIN d : KeepParam(d[k])}
           IN Some([k \in kept |-> d[k]])

\* the query string httpx builds: one key=value pair per entry
QueryOf(clean) ==
    IF IsNone(clean) THEN {}
    ELSE {<<k, Val(clean)[k]>> : k \in DOMAIN Val(clean)}

\* the paths tried, as sequences of characters
Paths == {<<"/", "m">>, <<"m">>, <<"/", "/", "m">>}

\* path.lstrip("/")
RECURSIVE LStrip(_)
LStrip(path) ==
    IF path # << >> /\ Head(path) = "/" THEN LStrip(Tail(path)) ELSE path

NoRequest == << >>

\* the list lengths tried for tickers, mints and addresses (a list is
\* modelled by its length; OptNone: the argument is None)
BatchLens == {OptNone} \cup {Some(n) : n \in {0, 1, 50, 51, 100, 101}}
FilterLens == {0, 1, 199, 200, 201, 250}

\* len(x or [])
LenOrEmpty(o) == IF IsNone(o) THEN 0 ELSE Val(o)

\* (mutant) the limit itself is refused
ExceedsLimit_atLimit(n, limit) == n >= limit

\* if total_items > MAX_BATCH_SIZE / if len(addresses) > MAX_FILTER_ADDRESSES
ExceedsLimit(n, limit) == n > limit

\* the request is handed to the transport
Transmit(req) ==
    /\ httpRequest' = Append(httpRequest, req)
    /\ httpPc' = "sent"
    /\ UNCHANGED <<httpResponse, httpResult>>

\* HttpClient.get(path, params), up to the transport
HttpGet ==
    /\ httpPc = "idle"
    /\ \E path \in Paths, params \in ParamArgs :
         /\ httpCall' = [op |-> "get", path |-> path, params |-> params,
                         n |-> 0]
         /\ Transmit([method |-> "GET", path |-> LStrip(path),
                      query |-> QueryOf(CleanParams(params)),
                      json |-> << >>])
    /\ UNCHANGED notHttp

\* HttpClient.post(path, json), up to the transport
HttpPost ==
    /\ httpPc = "idle"
    /\ \E path \in Paths, body \in {OptNone, Some("body")} :
         /\ httpCall' = [op |-> "post", path |-> path, params |-> body,
                         n |-> 0]
         /\ Transmit([method |-> "POST", path |-> LStrip(path),
                      query |-> {}, json |-> body])
    /\ UNCHANGED notHttp

\* MarketsAPI.get_markets_batch(tickers, mints), up to the transport
get_markets_batch ==
    /\ httpPc = "idle"
    /\ \E tickers \in BatchLens, mints \in BatchLens :
         /\ httpCall' = [op |-> "get_markets_batch",
                         path |-> <<"/", "markets", "/", "batch">>,
                         params |-> <<tickers, mints>>,
                         n |-> LenOrEmpty(tickers) + LenOrEmpty(mints)]
         /\ IF ExceedsLimit(LenOrEmpty(tickers) + LenOrEmpty(mints),
                         MAX_BATCH_SIZE)
              THEN /\ httpResult' = Raised("ValueError")
                   /\ httpPc' = "raised"
                   /\ UNCHANGED <<httpRequest, httpResponse>>
              ELSE Transmit([method |-> "POST",
                             path |-> LStrip(<<"/", "markets", "/", "batch">>),
                             query |-> {},
                             json |-> Some(<<LenOrEmpty(tickers),
                                             LenOrEmpty(mints)>>)])
    /\ UNCHANGED notHttp

\* MarketsAPI.filter_outcome_mints(addresses), up to the transport
filter_outcome_mints ==
    /\ httpPc = "idle"
    /\ \E addresses \in FilterLens :
         /\ httpCall' = [op |-> "filter_outcome_mints",
                         path |-> <<"/", "filter_outcome_mints">>,
                         params |-> <<addresses>>, n |-> addresses]
         /\ IF ExceedsLimit(addresses, MAX_FILTER_ADDRESSES)
              THEN /\ httpResult' = Raised("ValueError")
                   /\ httpPc' = "raised"
                   /\ UNCHANGED <<httpRequest, httpResponse>>
              ELSE Transmit([method |-> "POST",
                             path |-> LStrip(<<"/", "filter_outcome_mints">>),
                             query |-> {}, json |-> Some(<<addresses>>)])
    /\ UNCHANGED notHttp

\* the transport answers, and _handle_response classifies the answer
HttpRespond ==
    /\ httpPc = "sent"
    /\ \E r \in Responses :
         /\ httpResponse' = r
         /\ httpResult' = _handle_response(r)
         /\ httpPc' = IF _handle_response(r).kind = "return"
                        THEN "returned" ELSE "raised"
    /\ UNCHANGED <<httpCall, httpRequest>>
    /\ UNCHANGED notHttp

\* the transport fails: self._client.get/post raises, and nothing in
\* HttpClient catches it
HttpTransportFails ==
    /\ httpPc = "sent"
    /\ \E err \in TransportErrors : httpResult' = Raised(err)
    /\ httpPc' = "raised"
    /\ UNCHANGED <<httpCall, httpRequest, httpResponse>>
    /\ UNCHANGED notHttp

NoCall == [op |-> "none", path |-> << >>, params |-> << >>, n |-> 0]

\* HttpClient.__init__: no call made yet
HttpIdle ==
    /\ httpPc = "idle"
    /\ httpCall = NoCall
    /\ httpRequest = << >>
    /\ httpResponse = NoResponse
    /\ httpResult = NoHttpResult

----------------------------------------------------------------------------
(* _calculate_delay: exponential backoff with jitter *)

\* The delays are Python floats. The values tried are 0 and the powers of
\* two, kept by their exponent, together with the float inf.
Zero == [kind |-> "zero", e |-> 0]
Pow2(e) == [kind |-> "pow2", e |-> e]
Inf == [kind |-> "inf", e |-> 0]
NoDelay == [kind |-> "none", e |-> 0]

\* sys.float_info.max_exp: 2.0 ** 1024 is out of the range of a float
FloatMaxExp == 1024

\* x <= y
FloatLeq(x, y) ==
    \/ x.kind = "zero"
    \/ y.kind = "inf"
    \/ x.kind = "pow2" /\ y.kind = "pow2" /\ x.e <= y.e

\* min(x, y)
FloatMin(x, y) == IF FloatLeq(x, y) THEN x ELSE y

\* x ** a for a float x = 2 ** k raises OverflowError when the result is
\* out of range
PowOverflows(k, a) == k * a >= FloatMaxExp

\* x ** a otherwise
FloatPow(k, a) == Pow2(k * a)

\* x * y, which overflows to inf
FloatMul(x, y) ==
    IF x.kind = "zero" \/ y.kind = "zero" THEN Zero
    ELSE IF x.e + y.e >= FloatMaxExp THEN Inf
    ELSE Pow2(x.e + y.e)

\* the arguments tried: initial_delay_ms 0, 1 and 1024; max_delay_ms 0, 1,
\* 32 and 32768; backoff_multiplier 1.0, 2.0 (the default) and 4.0
InitialDelays == {Zero, Pow2(0), Pow2(10)}
MaxDelays == {Zero, Pow2(0), Pow2(5), Pow2(15)}
MultiplierExps == {0, 1, 2}

\* the attempt indices the runs start from
AttemptStarts == {0, 508, 1020}

\* random.random() * 0.25, in sixteenths: random() is 0, 1/4, 1/2 or 3/4
JitterSixteenths == 0..3

\* delay_with_cap = min(initial_delay_ms * backoff_multiplier ** attempt,
\*                      max_delay_ms)
delay_with_cap(a) ==
    FloatMin(FloatMul(initial_delay_ms, FloatPow(backoff_multiplier, a)),
             max_delay_ms)

\* one call of _calculate_delay(dlAttempt, ...), and the move to the next
\* attempt index
CalculateDelay ==
    /\ dlPc = "ready"
    /\ dlCalls < MaxDelayCalls
    /\ dlCalls' = dlCalls + 1
    /\ dlAttempt' = dlAttempt + 1
    /\ IF PowOverflows(backoff_multiplier, dlAttempt)
         THEN \* OverflowError
              /\ dlPc' = "raised"
              /\ UNCHANGED <<dlPrev, dlDelay, dlJitter>>
         ELSE /\ dlPrev' = dlDelay
              /\ dlDelay' = delay_with_cap(dlAttempt)
              /\ dlJitter' \in JitterSixteenths
              /\ UNCHANGED dlPc
    /\ UNCHANGED <<initial_delay_ms, max_delay_ms, backoff_multiplier>>
    /\ UNCHANGED notDelay

\* the arguments of a run
DelayInit ==
    /\ initial_delay_ms \in InitialDelays
    /\ max_delay_ms \in MaxDelays
    /\ backoff_multiplier \in MultiplierExps
    /\ dlAttempt \in AttemptStarts
    /\ dlPc = "ready"
    /\ dlCalls = 0
    /\ dlPrev = NoDelay
    /\ dlDelay = NoDelay
    /\ dlJitter = 0

\* _calculate_delay is not called
DelayIdle ==
    /\ initial_delay_ms = Zero
    /\ max_delay_ms = Zero
    /\ backoff_multiplier = 0
    /\ dlAttempt = 0
    /\ dlPc = "idle"
    /\ dlCalls = 0
    /\ dlPrev = NoDelay
    /\ dlDelay = NoDelay
    /\ dlJitter = 0

\* the components added after the first three are not used
----------------------------------------------------------------------------
(* paginate_async *)

\* (mutant) the async loop is left after the first page whatever its cursor
AEndOfPage_noLoop(r) ==
    /\ aCursor' = get_cursor(r)
    /\ aPc' = "done"

\* cursor = get_cursor(response); if not cursor: break
AEndOfPage(r) ==
    /\ aCursor' = get_cursor(r)
    /\ aPc' = IF Truthy(get_cursor(r)) THEN "fetch" ELSE "done"

\* the top of the while loop: params are built and fetch_page(params) is
\* called; the generator is suspended in the await
APgCall ==
    /\ aPc = "fetch"
    /\ aFetchLog' = Logged(aFetchLog, BuildParams(aCursor, page_size))
    /\ aPc' = "awaiting"
    /\ UNCHANGED <<aCursor, aItemsYielded, aResponse, aIdx, aYielded>>
    /\ UNCHANGED notAsync

\* the awaited fetch_page returns the response; items = get_items(response)
APgFetched ==
    /\ aPc = "awaiting"
    /\ LET r == FetchPage(aFetchLog[Len(aFetchLog)])
       IN /\ aResponse' = r
          /\ IF get_items(r) # << >>
               THEN /\ aIdx' = 1
                    /\ aPc' = "yield"
                    /\ UNCHANGED aCursor
               ELSE /\ aIdx' = 0
                    /\ AEndOfPage(r)
    /\ UNCHANGED <<aItemsYielded, aFetchLog, aYielded>>
    /\ UNCHANGED notAsync

\* yield item
APgYield ==
    /\ aPc = "yield"
    /\ aYielded' = Append(aYielded, get_items(aResponse)[aIdx])
    /\ aPc' = "resume"
    /\ UNCHANGED <<aCursor, aItemsYielded, aResponse, aIdx, aFetchLog>>
    /\ UNCHANGED notAsync

\* the async for asks for the next item: the rest of the for body
APgResume ==
    /\ aPc = "resume"
    /\ aItemsYielded' = aItemsYielded + 1
    /\ IF ~IsNone(max_items) /\ aItemsYielded + 1 >= Val(max_items)
         THEN /\ aPc' = "done"
              /\ UNCHANGED <<aCursor, aIdx>>
         ELSE IF aIdx < Len(get_items(aResponse))
           THEN /\ aIdx' = aIdx + 1
                /\ aPc' = "yield"
                /\ UNCHANGED aCursor
           ELSE /\ AEndOfPage(aResponse)
                /\ UNCHANGED aIdx
    /\ UNCHANGED <<aResponse, aFetchLog, aYielded>>
    /\ UNCHANGED notAsync

\* paginate_async(...) called: cursor = None, items_yielded = 0
AsyncInit ==
    /\ aCursor = NoneVal
    /\ aItemsYielded = 0
    /\ aResponse = 0
    /\ aIdx = 0
    /\ aPc = "fetch"
    /\ aFetchLog = << >>
    /\ aYielded = << >>

\* paginate_async not called
AsyncIdle ==
    /\ aCursor = NoneVal
    /\ aItemsYielded = 0
    /\ aResponse = 0
    /\ aIdx = 0
    /\ aPc = "idle"
    /\ aFetchLog = << >>
    /\ aYielded = << >>

RestIdle == HttpIdle /\ DelayIdle /\ AsyncIdle

----------------------------------------------------------------------------
(* Specifications *)

NextPaginate == PgFetch \/ PgYield \/ PgResume

InitPaginate == PgInit /\ RtIdle /\ WsIdle /\ RestIdle

SpecPaginate == InitPaginate /\ [][NextPaginate]_vars

InitEndless == PgInitEndless /\ RtIdle /\ WsIdle /\ RestIdle

\* the consumer never stops pulling: every step the generator can take is
\* eventually taken
SpecEndless == InitEndless /\ [][NextPaginate]_vars /\ WF_vars(NextPaginate)

NextRetry == RtInvoke

NextRetryable == wrapper \/ RtInvoke

InitRetryable == RetryableInit /\ PgIdle /\ WsIdle /\ RestIdle

SpecRetryable == InitRetryable /\ [][NextRetryable]_vars

InitRetry == RtInit /\ PgIdle /\ WsIdle /\ RestIdle

SpecRetry == InitRetry /\ [][NextRetry]_vars

NextWS ==
    \/ UserConnect
    \/ UserHandshakeOk
    \/ UserHandshakeFail
    \/ TransportDrop
    \/ ListenerSeesClose
    \/ ReconnectWake
    \/ ReconnectOk
    \/ ReconnectFail
    \/ Disconnect

InitWS == WsInit /\ CbInit /\ CallInit /\ PgIdle /\ RtIdle /\ RestIdle

SpecWS == InitWS /\ [][NextWS]_vars

\* the connection life cycle together with the control-frame calls
NextControl ==
    \/ NextWS
    \/ subscribe_prices
    \/ subscribe_trades
    \/ subscribe_orderbook
    \/ subscribe_all_prices
    \/ subscribe_all_trades
    \/ subscribe_all_orderbook
    \/ unsubscribe

SpecControl == InitWS /\ [][NextControl]_vars

\* __init__() with the default arguments
WsInitDefaults ==
    /\ reconnect = TRUE
    /\ max_reconnect_attempts = DefaultMaxReconnect
    /\ ws = 0
    /\ reconnect_attempts = 0
    /\ is_connecting = FALSE
    /\ listen_task = 0
    /\ transports = << >>
    /\ tasks = << >>
    /\ userPc = "idle"
    /\ userRaised = FALSE
    /\ reconnTries = 0
    /\ terminalErrors = 0
    /\ closeRounds = 0
    /\ interfered = FALSE

\* the life cycle and the control-frame calls on such a client
InitDefaults ==
    WsInitDefaults /\ CbInit /\ CallInit /\ PgIdle /\ RtIdle /\ RestIdle

SpecDefaults == InitDefaults /\ [][NextControl]_vars

NextCallbacks ==
    \/ on_price
    \/ on_trade
    \/ on_orderbook
    \/ on_error
    \/ on_close
    \/ CallDisposer
    \/ HandleMessage

InitCallbacks == WsConnected /\ CbInit /\ CallInit /\ PgIdle /\ RtIdle /\ RestIdle

SpecCallbacks == InitCallbacks /\ [][NextCallbacks]_vars

NextHttp ==
    \/ HttpGet
    \/ HttpPost
    \/ get_markets_batch
    \/ filter_outcome_mints
    \/ HttpRespond
    \/ HttpTransportFails

InitHttp == HttpIdle /\ DelayIdle /\ AsyncIdle /\ PgIdle /\ RtIdle /\ WsIdle

SpecHttp == InitHttp /\ [][NextHttp]_vars

NextDelay == CalculateDelay

InitDelay == DelayInit /\ HttpIdle /\ AsyncIdle /\ PgIdle /\ RtIdle /\ WsIdle

\* list(paginate(...)) and an async for over paginate_async(...) with the
\* same arguments against the same server
NextAsync == PgFetch \/ PgYield \/ PgResume
             \/ APgCall \/ APgFetched \/ APgYield \/ APgResume

InitAsync ==
    /\ PgInit /\ pgMode = "collect_all"
    /\ AsyncInit /\ HttpIdle /\ DelayIdle /\ RtIdle /\ WsIdle

SpecAsync == InitAsync /\ [][NextAsync]_vars

SpecDelay == InitDelay /\ [][NextDelay]_vars

----------------------------------------------------------------------------
(* Claims about the pagination engine *)

AllItems == ConcatItems(chain)

\* the number of items on the first k pages
ItemsUpTo(k) == Len(ConcatItems(SubSeq(chain, 1, k)))

\* the page that holds the m-th item of the chain (1 <= m <= Len(AllItems))
PageHolding(m) ==
    CHOOSE k \in 1..Len(chain) : ItemsUpTo(k) >= m /\ ItemsUpTo(k - 1) < m

\* the cursor parameters of a walk over the first k pages, each page once
WalkCursors(k) == [i \in 1..k |-> IF i = 1 THEN NoneVal ELSE Tok[i - 1]]

FetchCursors == [i \in 1..Len(fetchLog) |-> fetchLog[i].cursor]

\* C1: over a finite chain p1..pn whose pages p1..p(n-1) carry a truthy
\* cursor and whose last page carries an absent cursor, collect_all without
\* max_items never stops before it returns, never fetches more than n
\* pages, and returns after exactly n fetch_page calls with exactly
\* items(p1) ++ ... ++ items(pn), in server order.
C1_CollectAllConcat ==
    (pgMode = "collect_all" /\ IsNone(max_items)
        /\ chain[Len(chain)].cursor = NoneVal)
    => /\ Len(fetchLog) <= Len(chain)
       /\ pgRet \/ ENABLED NextPaginate
       /\ pgRet => /\ Len(fetchLog) = Len(chain)
                   /\ pgResult.kind = "list"
                   /\ pgResult.list = AllItems

C1_Witness ==
    /\ pgMode = "collect_all" /\ IsNone(max_items) /\ pgRet
    /\ Len(chain) = 3 /\ chain[3].cursor = NoneVal
    /\ Len(chain[1].items) = 2 /\ Len(chain[2].items) = 1
    /\ Len(chain[3].items) = 2
    /\ pgResult.list = <<1, 2, 3, 4, 5>>

\* C2: with max_items = m >= 1 over a chain holding at least m items,
\* collect_all yields exactly the first m items of the concatenated pages,
\* in order, and no fetch_page call is made beyond the page that holds the
\* m-th item (also when that item is the last one of a page with a cursor).
C2_MaxItemsPrefix ==
    (pgMode = "collect_all" /\ ~IsNone(max_items) /\ Val(max_items) >= 1
        /\ Len(AllItems) >= Val(max_items))
    => /\ yielded = SubSeq(AllItems, 1, Len(yielded))
       /\ Len(yielded) <= Val(max_items)
       /\ Len(fetchLog) <= PageHolding(Val(max_items))
       /\ pgRet \/ ENABLED NextPaginate
       /\ pgRet => /\ pgResult.list = SubSeq(AllItems, 1, Val(max_items))
                   /\ Len(fetchLog) = PageHolding(Val(max_items))

\* the m-th item is the last item of a page that carries a cursor
C2_Witness ==
    /\ pgMode = "collect_all" /\ max_items = Some(2) /\ pgRet
    /\ Len(chain) >= 2 /\ Len(chain[1].items) = 2 /\ Len(chain[2].items) = 2
    /\ pgResult.list = <<1, 2>>
    /\ Len(fetchLog) = 1

\* the positions in the concatenated pages of the items the predicate accepts
Matches == {i \in 1..Len(AllItems) : Holds(predicate, AllItems[i])}
FirstMatch == CHOOSE i \in Matches : \A j \in Matches : i <= j

\* C3: find_first returns the first item, in concatenated page order, that
\* satisfies the predicate, and makes no fetch_page call after the page
\* that holds it; when no item of the finite chain satisfies the predicate
\* it returns None after fetching every page exactly once.
C3_FindFirst ==
    pgMode = "find_first"
    => /\ pgRet \/ ENABLED NextPaginate
       /\ IF Matches # {}
            THEN /\ Len(fetchLog) <= PageHolding(FirstMatch)
                 /\ pgRet => /\ pgResult.kind = "item"
                             /\ pgResult.n = AllItems[FirstMatch]
                             /\ Len(fetchLog) = PageHolding(FirstMatch)
            ELSE /\ Len(fetchLog) <= Len(chain)
                 /\ pgRet => /\ pgResult.kind = "None"
                             /\ FetchCursors = WalkCursors(Len(chain))

\* the match is the last item of a page that carries a cursor, and later
\* items match too
C3_Witness ==
    /\ pgMode = "find_first" /\ pgRet
    /\ predicate = [kind |-> "ge", t |-> 4]
    /\ Len(chain) = 3 /\ Len(chain[1].items) = 2 /\ Len(chain[2].items) = 2
    /\ Len(chain[3].items) = 2
    /\ pgResult = [kind |-> "item", list |-> << >>, n |-> 4]
    /\ Len(fetchLog) = 2

C3_WitnessNone ==
    /\ pgMode = "find_first" /\ pgRet /\ Matches = {}
    /\ Len(chain) = 3 /\ pgResult.kind = "None" /\ Len(fetchLog) = 3

----------------------------------------------------------------------------
(* Claims about the retry policy *)

\* every invocation of fn so far raised an error the predicate accepts
AlwaysFailedRetryable == nFail = calls /\ allRetryable

C5_WitnessFirstCall ==
    rtPc = "returned" /\ calls = 1 /\ nFail = 0 /\ max_retries = 3

\* C6: whenever the retry predicate (the default one or the caller's) is
\* false for a failure, no further invocation and no wait follows, and
\* that same error propagates, whatever retry budget is left.
C6_NonRetryable ==
    (lastOutcome.kind = "err" /\ ~retry_check(lastOutcome.error, calls - 1))
    => /\ rtPc = "raised"
       /\ rtRaised = lastOutcome.error
       /\ Len(waits) = calls - 1
       /\ ~ENABLED RtInvoke

\* the predicate attempt < 2 under max_retries = 5: exactly three invocations
C6_Witness ==
    /\ should_retry = [kind |-> "custom", k |-> 2] /\ max_retries = 5
    /\ rtPc = "raised" /\ calls = 3 /\ Len(waits) = 2
    /\ rtRaised = [kind |-> "ValueError", status_code |-> 0, id |-> 3]

\* a 404 under max_retries = 3: exactly one invocation
C6_Witness404 ==
    /\ should_retry.kind = "None" /\ max_retries = 3
    /\ rtPc = "raised" /\ calls = 1 /\ waits = << >>
    /\ rtRaised = [kind |-> "DFlowApiError", status_code |-> 404, id |-> 1]

\* C7: default_should_retry is true exactly for a DFlowApiError whose
\* status is 429 or at least 500, for a ConnectionError and for a
\* TimeoutError; it is false for every other failure, whatever the attempt
\* index.
C7_DefaultPredicate ==
    (should_retry.kind = "None" /\ lastCheck.error # NoError)
    => lastCheck.verdict =
         (\/ /\ lastCheck.error.kind = "DFlowApiError"
             /\ \/ lastCheck.error.status_code = 429
                \/ lastCheck.error.status_code >= 500
          \/ lastCheck.error.kind \in
               {"ConnectionError", "ConnectionRefusedError", "TimeoutError"})

\* a 499 is refused on the third attempt
C7_Witness ==
    /\ should_retry.kind = "None"
    /\ lastCheck.error.kind = "DFlowApiError"
    /\ lastCheck.error.status_code = 499
    /\ lastCheck.attempt = 2
    /\ lastCheck.verdict = FALSE

C7_WitnessTimeout ==
    /\ should_retry.kind = "None"
    /\ lastCheck.error.kind = "TimeoutError"
    /\ lastCheck.attempt = 1
    /\ lastCheck.verdict = TRUE

----------------------------------------------------------------------------
(* Claims about the streaming client's reconnection *)

\* no connect() is in flight and no listener task is waiting for anything
Quiescent ==
    /\ userPc = "idle"
    /\ \A i \in 1..Len(tasks) : ~Alive(tasks[i].pc)

\* the one transport ever opened was dropped abnormally, every connect
\* attempt since has failed, and the user has called neither connect() nor
\* disconnect() since
DroppedForGood ==
    /\ reconnect /\ ~interfered
    /\ Len(transports) = 1 /\ transports[1] = "closedErr"

\* C8: with auto-reconnect enabled and max_reconnect_attempts = N, when a
\* connected transport drops and every later connect attempt fails, the
\* client has come to rest only after exactly N reconnect attempts and one
\* terminal error delivered to the error callbacks (every failed reconnect
\* is followed by another attempt or by that terminal error).
C8_ReconnectBudget ==
    (DroppedForGood /\ Quiescent)
    => /\ reconnTries = max_reconnect_attempts
       /\ terminalErrors = 1

----------------------------------------------------------------------------
(* Claims about the callback lists *)

\* the callbacks of the registrations for event e whose disposer has not
\* been called, in registration order
LiveCallbacks(e) ==
    LET Live(d) == d.event = e /\ d.calls = 0
        live == SelectSeq(disposers, Live)
    IN [i \in 1..Len(live) |-> live[i].cb]

\* C9: a disposer removes exactly the callback registered by the call that
\* returned it and no other: every list holds exactly the callbacks whose
\* own disposer has not been called, so that a delivered update fires each
\* of them once and no disposed one.
C9_DisposerRemovesOwn ==
    \A e \in Events : callbacks[e] = LiveCallbacks(e)

\* C10: a second or later call of a disposer raises no error and leaves
\* every callback list unchanged.
C10_DisposerIdempotent ==
    [][\A d \in 1..Len(disposers) :
         (disposers[d].calls >= 1 /\ Dispose(d))
         => (callbacks' = callbacks /\ ~cbRaised')]_vars

----------------------------------------------------------------------------
(* Claims about the control frames and the connection life cycle *)

\* C11: a subscribe_*, subscribe_all_* or unsubscribe call made while the
\* client is not connected (never connected, handshake in progress,
\* transport closed, waiting to reconnect, after disconnect) raises an
\* error and writes no frame to any transport.
C11_SendNeedsConnection ==
    (lastSend.op # "none" /\ ~lastSend.connected)
    => /\ lastSend.raised
       /\ lastSend.wrote = 0
       /\ lastSend.frame = << >>

\* a call refused while the listener waits to reconnect on a closed transport
C11_Witness ==
    /\ lastSend.op = "unsubscribe"
    /\ ~lastSend.connected
    /\ lastSend.raised
    /\ Phases = {"transport closed", "waiting to reconnect"}

\* calls refused in each of the other phases
C11_WitnessNever ==
    lastSend.op = "subscribe" /\ lastSend.raised
    /\ Phases = {"never connected"}

C11_WitnessHandshake ==
    lastSend.op = "subscribe_all" /\ lastSend.raised
    /\ Phases = {"never connected", "handshake"}

C11_WitnessDisconnected ==
    lastSend.op = "subscribe" /\ lastSend.raised
    /\ Phases = {"disconnected"}

\* and a call on a connected client does write its frame
C11_WitnessConnected ==
    lastSend.connected /\ ~lastSend.raised /\ lastSend.wrote # 0

\* a connect() handshake is in flight, the user's or the reconnect path's
InHandshake ==
    \/ userPc = "handshake"
    \/ \E i \in 1..Len(tasks) : tasks[i].pc = "handshake"

\* C12: a connect() call made while the client is connected or while a
\* connect() handshake is in flight changes nothing: no transport is opened,
\* no listener started, no handshake begun, and the reconnect counter and
\* the callback lists stay as they were.
C12_ConnectIdempotent ==
    [][(connectCalls' # connectCalls /\ (IsConnected \/ InHandshake))
       => /\ lastConnect' = "returned at once"
          /\ UNCHANGED <<transports, tasks, listen_task, ws, is_connecting,
                         userPc, reconnect_attempts, callbacks>>]_vars

\* connect() has just returned at once during the handshake of a reconnect
C12_Witness ==
    /\ lastConnect = "returned at once"
    /\ userPc = "idle"
    /\ \E i \in 1..Len(tasks) : tasks[i].pc = "handshake"

\* ... on a connected client
C12_WitnessConnected ==
    lastConnect = "returned at once" /\ IsConnected /\ ~is_connecting

\* ... during the handshake of another connect() call of the user
C12_WitnessUser ==
    lastConnect = "returned at once" /\ userPc = "handshake"

\* C13: disconnect() is terminal from every state: once it has been called
\* (and until the user calls connect() again) auto-reconnect is off, no
\* listener is alive, no transport is open and the client is not connected,
\* whatever handshake or reconnect wait was in flight at the call.
C13_DisconnectTerminal ==
    disconnected
    => /\ ~reconnect
       /\ ~IsConnected
       /\ \A t \in 1..Len(transports) : Closed(t)
       /\ \A i \in 1..Len(tasks) : tasks[i].pc # "listening"

----------------------------------------------------------------------------
(* Claims about the dispatch of inbound messages *)

\* the invocations of the callbacks of event e in lists, once each, in order
CallsOf(lists, e) ==
    [i \in 1..Len(lists[e]) |-> [event |-> e, cb |-> lists[e][i]]]

Decodes(m) ==
    m.json = "object" /\ EventOf(m.channel) # "none" /\ m.valid

\* C14: for an inbound message that decodes with channel prices, trades or
\* orderbook, the callbacks invoked are exactly the callbacks registered for
\* that event when the message arrived, once each, in registration order,
\* and no callback of another event.
C14_DispatchAll ==
    Decodes(lastDispatch.msg)
    => fired = CallsOf(lastDispatch.before, EventOf(lastDispatch.msg.channel))

\* C15: an inbound message that does not decode, or whose channel is
\* unrecognized or missing, is delivered to every error callback and
\* invokes no price, trade or orderbook callback.
C15_UndecodableToError ==
    (lastDispatch.msg # NoMessage /\ ~Decodes(lastDispatch.msg))
    => /\ \A k \in 1..Len(fired) : fired[k].event = "error"
       /\ \A j \in 1..Len(lastDispatch.before["error"]) :
            \E k \in 1..Len(fired) :
               fired[k].cb = lastDispatch.before["error"][j]

----------------------------------------------------------------------------
(* Claims about HttpClient and the endpoint wrappers *)

\* C16: a call returns the decoded JSON payload only for a 2xx response
\* with a valid JSON body; every other response raises DFlowApiError with
\* the HTTP status and the parsed JSON body, or the raw text when the body
\* is not JSON (a 2xx response with a non-JSON body included).
C16_ResponseClassification ==
    httpResponse # NoResponse
    => LET status == httpResponse.status_code
           body == httpResponse.body
       IN IF status >= 200 /\ status <= 299 /\ body.json
            THEN /\ httpPc = "returned"
                 /\ httpResult.kind = "return"
                 /\ httpResult.value = Decoded(body.text)
            ELSE /\ httpPc = "raised"
                 /\ httpResult.kind = "raise"
                 /\ httpResult.error = "DFlowApiError"
                 /\ httpResult.status_code = status
                 /\ httpResult.response =
                      IF body.json THEN Decoded(body.text)
                      ELSE <<"text", body.text>>

\* a 404 with a JSON error body has been raised by get
C16_Witness ==
    /\ httpCall.op = "get"
    /\ httpResponse.status_code = 404
    /\ httpResponse.body.json
    /\ httpResult.kind = "raise"
    /\ httpResult.status_code = 404

\* a 2xx answer of post whose body is not JSON has been raised
C16_WitnessNotJson ==
    /\ httpCall.op = "post"
    /\ httpResponse.status_code = 204
    /\ ~httpResponse.body.json
    /\ httpResult.error = "DFlowApiError"

\* a redirect is not a success, and a 2xx JSON answer is returned
C16_WitnessRedirect ==
    httpResponse.status_code = 304 /\ httpResult.kind = "raise"

C16_WitnessReturn ==
    httpResponse.status_code = 299 /\ httpResult.kind = "return"

\* C17: the query of a GET issued with a parameter map holds exactly the
\* keys whose value is not None, each with its given value.
C17_NoneParamsOmitted ==
    (httpCall.op = "get" /\ httpPc # "idle")
    => /\ Len(httpRequest) = 1
       /\ httpRequest[1].method = "GET"
       /\ LET p == httpCall.params
              given == IF p = OptNone THEN {}
                       ELSE {<<k, p[1][k]>> : k \in DOMAIN p[1]}
          IN httpRequest[1].query = {kv \in given : kv[2] # NoneVal}

\* a GET with one absent, one empty and one ordinary value has been issued
C17_Witness ==
    /\ httpCall.op = "get"
    /\ httpCall.params # OptNone
    /\ DOMAIN httpCall.params[1] = ParamKeys
    /\ httpCall.params[1]["cursor"] = NoneVal
    /\ httpCall.params[1]["status"] = "active"
    /\ httpCall.params[1]["limit"] = ""
    /\ httpRequest[1].query = {<<"status", "active">>, <<"limit", "">>}

\* C18: get_markets_batch raises ValueError without any HTTP request when
\* len(tickers) + len(mints) > 100, and filter_outcome_mints when
\* len(addresses) > 200; at or below the limits the request is issued.
C18_SizeLimits ==
    /\ httpCall.op = "get_markets_batch"
       => LET t == httpCall.params[1]
              m == httpCall.params[2]
              total == (IF t = OptNone THEN 0 ELSE t[1])
                       + (IF m = OptNone THEN 0 ELSE m[1])
          IN IF total > 100
               THEN /\ httpResult.error = "ValueError"
                    /\ httpRequest = << >>
               ELSE /\ httpResult.error # "ValueError"
                    /\ Len(httpRequest) = 1
    /\ httpCall.op = "filter_outcome_mints"
       => IF httpCall.params[1] > 200
            THEN /\ httpResult.error = "ValueError"
                 /\ httpRequest = << >>
            ELSE /\ httpResult.error # "ValueError"
                 /\ Len(httpRequest) = 1

\* 50 tickers and 51 mints have been refused
C18_Witness ==
    /\ httpCall.op = "get_markets_batch"
    /\ httpCall.params = <<Some(50), Some(51)>>
    /\ httpResult.error = "ValueError"
    /\ httpRequest = << >>

\* 100 items and 200 addresses are sent; 201 addresses are refused
C18_WitnessAtLimit ==
    /\ httpCall.op = "get_markets_batch"
    /\ httpCall.params = <<Some(100), OptNone>>
    /\ Len(httpRequest) = 1

C18_WitnessFilterAtLimit ==
    /\ httpCall.op = "filter_outcome_mints"
    /\ httpCall.params = <<200>>
    /\ Len(httpRequest) = 1

C18_WitnessFilter ==
    /\ httpCall.op = "filter_outcome_mints"
    /\ httpCall.params = <<201>>
    /\ httpResult.error = "ValueError"

----------------------------------------------------------------------------
(* Claims about the backoff delay *)

RECURSIVE TwoTo(_)
TwoTo(n) == IF n = 0 THEN 1 ELSE 2 * TwoTo(n - 1)

\* (16 + j) / 16 * x <= 20 / 16 * y for floats x, y that are 0 or a power
\* of two
WaitWithin125(x, j, y) ==
    \/ x.kind = "zero"
    \/ /\ x.kind = "pow2" /\ y.kind = "pow2"
       /\ LET low == IF x.e < y.e THEN x.e ELSE y.e
          IN (16 + j) * TwoTo(x.e - low) <= 20 * TwoTo(y.e - low)

\* C19: for every attempt index a >= 0 (initial_delay >= 0, multiplier >= 1)
\* the call yields a pre-jitter delay min(initial_delay * multiplier^a,
\* max_delay) that is at most max_delay and not below the delay of attempt
\* a - 1, and a wait of that delay plus a jitter between 0 and a quarter of
\* it, so at most 1.25 * max_delay.
C19_BackoffBound ==
    dlCalls > 0
    => /\ dlPc = "ready"
       /\ FloatLeq(dlDelay, max_delay_ms)
       /\ dlPrev # NoDelay => FloatLeq(dlPrev, dlDelay)
       /\ dlJitter >= 0 /\ dlJitter <= 4
       /\ WaitWithin125(dlDelay, dlJitter, max_delay_ms)

----------------------------------------------------------------------------
(* Claims about count_all *)

\* the sum of the page lengths of the chain
TotalItems == SumSeq([i \in 1..Len(chain) |-> Len(chain[i].items)])

\* C20: over every finite chain count_all returns the number of items
\* collect_all returns for that chain, the sum of the page lengths; for a
\* single empty page with an absent cursor they return 0 and [].
C20_CountMatchesCollect ==
    /\ (pgRet /\ pgMode = "count_all")
       => /\ pgResult.kind = "int"
          /\ pgResult.n = TotalItems
    /\ (pgRet /\ pgMode = "collect_all" /\ IsNone(max_items))
       => /\ pgResult.kind = "list"
          /\ Len(pgResult.list) = TotalItems
    /\ (pgRet /\ Len(chain) = 1 /\ chain[1].items = << >>
          /\ IsNone(max_items) /\ pgMode # "find_first")
       => /\ pgResult.list = << >>
          /\ pgResult.n = 0

\* count_all has returned 3 over pages of 2, 0 and 1 items
C20_Witness ==
    /\ pgMode = "count_all" /\ pgRet
    /\ Len(chain) = 3
    /\ Len(chain[1].items) = 2 /\ chain[2].items = << >>
    /\ Len(chain[3].items) = 1
    /\ pgResult.n = 3

\* count_all has returned 0 over a single empty page with an absent cursor
C20_WitnessEmpty ==
    /\ pgMode = "count_all" /\ pgRet
    /\ Len(chain) = 1 /\ chain[1].items = << >> /\ chain[1].cursor = NoneVal
    /\ pgResult.n = 0 /\ Len(fetchLog) = 1

\* ... and collect_all []
C20_WitnessEmptyList ==
    /\ pgMode = "collect_all" /\ pgRet /\ IsNone(max_items)
    /\ Len(chain) = 1 /\ chain[1].items = << >> /\ chain[1].cursor = NoneVal
    /\ pgResult.kind = "list" /\ pgResult.list = << >>

----------------------------------------------------------------------------
(* Edge cases of paginate *)

\* C21: with max_items = 0 paginate yields no item at all, whatever the
\* page chain: the first page may be fetched, none of its items is emitted.
C21_MaxItemsZero ==
    (pgMode = "collect_all" /\ max_items = Some(0))
    => /\ yielded = << >>
       /\ pgRet => pgResult.list = << >>

\* C22: when the first page fetched has an empty item list the sequence
\* is empty and fetch_page is invoked exactly once, whatever cursor that
\* response carries.
C22_EmptyFirstPage ==
    (pgMode \in {"collect_all", "count_all"} /\ chain[1].items = << >>)
    => /\ yielded = << >>
       /\ Len(fetchLog) <= 1
       /\ pgRet => Len(fetchLog) = 1

\* C23: a fully consumed paginate sequence terminates when max_items is
\* set, for every cursor chain of the server, an endless one included;
\* without max_items it terminates when the chain is finite.
C23_Termination ==
    (~IsNone(max_items) \/ Finite(chain)) => <>pgRet

----------------------------------------------------------------------------
(* create_retryable *)

\* C24: every call of the function create_retryable returned is a retry
\* loop of its own under the same policy: fn receives the arguments of
\* that call, the loop starts at attempt index 0 with max_retries + 1
\* invocations to spend, and what an earlier call spent is not missing
\* from a later one.
C24_IndependentCalls ==
    wrCalls >= 1
    => /\ attempt <= max_retries
       /\ waits = [i \in 1..attempt |-> i - 1]
       /\ calls > 0 => fnArgs = wrArgs
       /\ rtPc = "call" => calls = attempt
       /\ rtPc = "returned" => /\ calls = attempt + 1
                               /\ rtResult = lastOutcome.value
       /\ rtPc = "raised" => /\ calls = attempt + 1
                             /\ rtRaised = lastOutcome.error
                             /\ allRetryable => calls = max_retries + 1

\* the first call used up its budget, the second one has all of it again
C24_Witness ==
    /\ wrCalls = 2 /\ max_retries = 2 /\ should_retry.kind = "None"
    /\ prevCalls = 3
    /\ rtPc = "raised" /\ allRetryable /\ calls = 3
    /\ wrArgs = "a2" /\ fnArgs = "a2"

\* a second call that succeeds after retries of its own
C24_WitnessReturn ==
    /\ wrCalls = 2 /\ max_retries = 2 /\ prevCalls = 3
    /\ rtPc = "returned" /\ calls = 3 /\ waits = <<0, 1>>

----------------------------------------------------------------------------
(* with_retry around an HttpClient call *)

\* C25: a failure at transport level of an HttpClient.get/post call
\* (connection refused, DNS failure, timeout) is retryable for the default
\* predicate: with_retry makes another invocation after it as long as the
\* budget is not used up.
C25_TransportRetried ==
    (should_retry.kind = "None" /\ lastOutcome.kind = "err"
        /\ lastOutcome.error.kind \in TransportErrors)
    => /\ default_should_retry(lastOutcome.error, calls - 1)
       /\ calls <= max_retries => rtPc = "call"

----------------------------------------------------------------------------
(* Laziness of paginate *)

\* the generator is suspended at a yield, or will never run again
Suspended == pgPc \in {"resume", "abandoned", "done"}

\* C26: within one iteration fetch_page is called for the next page only
\* after every item of the pages fetched so far has been handed to the
\* consumer and the consumer has asked for one more; the items fetched
\* and not yet handed over are items of the one page in hand; and while
\* the consumer holds an item and does not pull, no fetch is made.
C26_SequentialFetch ==
    [][/\ fetchLog' # fetchLog
          => /\ pgPc = "fetch"
             /\ Len(fetchLog') = Len(fetchLog) + 1
             /\ Len(yielded) = ItemsUpTo(Len(fetchLog))
             /\ items_yielded = Len(yielded)
       /\ Suspended => fetchLog' = fetchLog
       /\ pgPc \in {"abandoned", "done"} => UNCHANGED pgVars
       /\ ItemsUpTo(Len(fetchLog')) - Len(yielded')
            <= IF response' = 0 THEN 0 ELSE Len(get_items(response'))]_vars

\* the second page has been fetched, after both items of the first were
\* handed over
C26_Witness ==
    /\ Len(fetchLog) = 2 /\ yielded = <<1, 2>> /\ items_yielded = 2
    /\ chain[1].items = <<1, 2>> /\ pgPc = "yield"

\* find_first stopped pulling on the first page: the second is never fetched
C26_WitnessStopped ==
    /\ pgPc = "abandoned" /\ Len(chain) >= 2 /\ Len(fetchLog) = 1
    /\ yielded = <<1>>

\* C27: the first fetch_page call of an iteration carries no cursor, the
\* (k+1)-th carries the cursor read from the k-th response, unchanged, and
\* when page_size is set every call carries limit = page_size.
C27_FetchParams ==
    \A k \in 1..Len(fetchLog) :
        /\ k = 1 => fetchLog[k].cursor = NoneVal
        /\ k > 1 => fetchLog[k].cursor = get_cursor(FetchPage(fetchLog[k - 1]))
        /\ ~IsNone(page_size) => fetchLog[k].limit = page_size
        /\ IsNone(page_size) => IsNone(fetchLog[k].limit)

----------------------------------------------------------------------------
(* The reconnect counter *)

\* task i handles the abnormal close of its transport in this step
HandlesDrop(i) ==
    /\ tasks[i].pc = "listening"
    /\ transports[tasks[i].ws] = "closedErr"
    /\ tasks'[i].pc \in {"sleeping", "done"}

\* C28: the reconnect-attempt counter stays between 0 and
\* max_reconnect_attempts; it is incremented when a drop is handled, before
\* the wait, and the connect attempt of a reconnect comes only after the
\* wait; a drop handled with auto-reconnect on and the counter equal to
\* max_reconnect_attempts delivers an error to the error callbacks and
\* starts neither a wait nor a connect attempt.
C28_CounterBounds ==
    [][/\ reconnect_attempts \in 0..max_reconnect_attempts
       /\ reconnect_attempts' \in 0..max_reconnect_attempts
       /\ \A i \in 1..Len(tasks) :
            /\ (tasks[i].pc # "sleeping" /\ tasks'[i].pc = "sleeping")
               => /\ HandlesDrop(i)
                  /\ reconnect_attempts' = reconnect_attempts + 1
            /\ (tasks[i].pc # "handshake" /\ tasks'[i].pc = "handshake")
               => /\ tasks[i].pc = "sleeping"
                  /\ reconnect_attempts' = reconnect_attempts
                  /\ reconnTries' = reconnTries + 1
            /\ (HandlesDrop(i) /\ reconnect
                  /\ reconnect_attempts = max_reconnect_attempts)
               => /\ terminalErrors' = terminalErrors + 1
                  /\ tasks'[i].pc = "done"
                  /\ reconnect_attempts' = reconnect_attempts
                  /\ reconnTries' = reconnTries
            /\ (HandlesDrop(i) /\ reconnect
                  /\ reconnect_attempts < max_reconnect_attempts)
               => /\ tasks'[i].pc = "sleeping"
                  /\ terminalErrors' = terminalErrors
       /\ reconnect_attempts' > reconnect_attempts
            => \E i \in 1..Len(tasks) : HandlesDrop(i) /\ tasks'[i].pc = "sleeping"
      ]_vars

\* a drop was handled with the counter at max_reconnect_attempts = 1
C28_Witness ==
    /\ reconnect /\ max_reconnect_attempts = 1 /\ reconnect_attempts = 1
    /\ terminalErrors = 1

\* max_reconnect_attempts = 0: the first drop is the terminal one
C28_WitnessZero ==
    /\ reconnect /\ max_reconnect_attempts = 0 /\ terminalErrors = 1
    /\ reconnTries = 0

\* the counter at its bound, a reconnect handshake in flight
C28_WitnessAtBound ==
    /\ max_reconnect_attempts = 2 /\ reconnect_attempts = 2
    /\ \E i \in 1..Len(tasks) : tasks[i].pc = "handshake"

\* a handshake succeeds in this step: websockets.connect hands a new
\* transport to connect()
HandshakeSucceeds == Len(transports') = Len(transports) + 1

\* C29: whenever a connect() handshake succeeds, called by the user or by
\* the reconnect path, the reconnect-attempt counter is 0 afterwards, the
\* connecting flag is cleared and a listener runs on the new transport;
\* the counter goes down at no other step.
C29_SuccessResets ==
    [][/\ HandshakeSucceeds
          => /\ (userPc = "handshake" /\ userPc' = "idle")
                \/ \E i \in 1..Len(tasks) :
                      tasks[i].pc = "handshake" /\ tasks'[i].pc = "done"
             /\ reconnect_attempts' = 0
             /\ is_connecting' = FALSE
             /\ ws' = Len(transports')
             /\ transports'[ws'] = "open"
             /\ Len(tasks') = Len(tasks) + 1
             /\ listen_task' = Len(tasks')
             /\ tasks'[listen_task'] = [pc |-> "listening", ws |-> ws']
       /\ reconnect_attempts' < reconnect_attempts => HandshakeSucceeds
      ]_vars

\* a reconnect succeeded: the counter it had incremented is back at 0
C29_Witness ==
    /\ Len(transports) = 2 /\ ~interfered /\ reconnTries = 1
    /\ reconnect_attempts = 0 /\ ~is_connecting /\ ws = 2
    /\ tasks[1].pc = "done" /\ tasks[listen_task].pc = "listening"

\* the user's connect() succeeded while an earlier listener was waiting to
\* reconnect: the counter that listener had incremented is back at 0
C29_WitnessUser ==
    /\ Len(transports) = 2 /\ reconnTries = 0 /\ userPc = "idle"
    /\ tasks[1].pc = "sleeping" /\ reconnect_attempts = 0
    /\ ws = 2 /\ ~Closed(ws) /\ ~is_connecting

\* the handshake of the user's connect() fails in this step
UserFails == userPc = "handshake" /\ userPc' = "idle" /\ ~HandshakeSucceeds

\* C30: when the handshake of a connect() called by the user fails, the
\* failure is raised to that caller and the client is as it was before the
\* call: not connecting, not connected, no listener started and no
\* reconnect scheduled by the failure (the counter, the tasks and the
\* error callbacks are left alone); a connect() called afterwards does not
\* return at once but performs a new handshake.
C30_UserConnectFails ==
    [][UserFails
       => /\ userRaised'
          /\ ~is_connecting'
          /\ ~IsConnected'
          /\ tasks' = tasks /\ listen_task' = listen_task
          /\ reconnect_attempts' = reconnect_attempts
          /\ reconnTries' = reconnTries
          /\ terminalErrors' = terminalErrors
          /\ transports' = transports
          /\ ~ConnectReturnsAtOnce'
      ]_vars

\* the first connect() of a client failed: Disconnected, nothing running
C30_Witness ==
    /\ userRaised /\ userPc = "idle" /\ connectCalls = 1
    /\ ~is_connecting /\ ws = 0 /\ tasks = << >> /\ transports = << >>

\* the connect() after a failed one is in its handshake
C30_WitnessAgain ==
    /\ connectCalls = 2 /\ lastConnect = "handshake" /\ userPc = "handshake"
    /\ transports = << >> /\ is_connecting

----------------------------------------------------------------------------
(* Reconnecting after a drop *)

\* the listener task i observes in this step that its transport is closed
ObservesClose(i) ==
    /\ tasks[i].pc = "listening"
    /\ Closed(tasks[i].ws)
    /\ tasks'[i].pc \in {"sleeping", "done"}

\* C31: when the listener of a connected client observes its transport
\* closed or failing, a reconnect attempt (the wait, then connect) follows
\* if and only if automatic reconnect is enabled (and attempts are left);
\* with reconnect disabled the listener makes no connection attempt.
C31_ReconnectIffEnabled ==
    [][\A i \in 1..Len(tasks) :
         ObservesClose(i)
         => (tasks'[i].pc = "sleeping"
               <=> (reconnect
                      /\ reconnect_attempts < max_reconnect_attempts))
      ]_vars

----------------------------------------------------------------------------
(* Callbacks that misbehave during a dispatch *)

\* how often cb stands in list, and how often it was invoked for event e
CountIn(list, cb) == Cardinality({i \in 1..Len(list) : list[i] = cb})
FiredCount(e, cb) ==
    Cardinality({k \in 1..Len(fired) : fired[k] = [event |-> e, cb |-> cb]})

\* C32: dispatch works on a snapshot of the callback list: when a callback
\* disposes itself or another callback during the dispatch of a message
\* (and nothing raises), every callback that was registered when the
\* dispatch began and is still registered afterwards has been invoked
\* exactly once for that message, and none more often than it was
\* registered.
C32_SnapshotDispatch ==
    (Decodes(lastDispatch.msg) /\ lastDispatch.beh.kind = "dispose"
        /\ ~lastDispatch.raised)
    => LET e == EventOf(lastDispatch.msg.channel)
       IN \A cb \in Callbacks :
            /\ CountIn(callbacks[e], cb) <= FiredCount(e, cb)
            /\ FiredCount(e, cb) <= CountIn(lastDispatch.before[e], cb)

----------------------------------------------------------------------------
(* Background tasks *)

\* the tasks that read inbound messages: listening on an open transport
Consuming == {i \in 1..Len(tasks) : tasks[i].pc = "listening"
                                      /\ ~Closed(tasks[i].ws)}

\* the tasks that have not ended: listening, waiting to reconnect, or in
\* the handshake of a reconnect
Background == {i \in 1..Len(tasks) : Alive(tasks[i].pc)}

\* C33: at every moment at most one listener task consumes inbound
\* messages; that listener is the only background task of the client, and
\* it is the task disconnect() cancels (self._listen_task).
C33_OneListener ==
    /\ Cardinality(Consuming) <= 1
    /\ Cardinality(Background) <= 1
    /\ \A i \in Background : i = listen_task

----------------------------------------------------------------------------
(* The waits of with_retry *)

\* C34: with_retry waits exactly once between two consecutive invocations
\* and never after the last one; the wait after the failure of 0-based
\* attempt i is computed from index i; the predicate is called with that
\* same index i; and it is not consulted for the failure of attempt
\* max_retries.
C34_WaitsAndIndices ==
    /\ waits = [i \in 1..Len(waits) |-> i - 1]
    /\ rtPc = "call" => Len(waits) = calls
    /\ rtPc \in {"returned", "raised"} => Len(waits) = calls - 1
    /\ (lastOutcome.kind = "err" /\ calls <= max_retries)
       => /\ lastCheck.error = lastOutcome.error
          /\ lastCheck.attempt = calls - 1
          /\ lastCheck.verdict = (rtPc = "call")
    /\ (lastOutcome.kind = "err" /\ calls = max_retries + 1)
       => /\ lastCheck.error # lastOutcome.error
          /\ lastCheck = NoCheck \/ lastCheck.attempt = max_retries - 1
          /\ rtPc = "raised"

\* three failures under max_retries = 2: two waits, from indices 0 and 1,
\* and the predicate last asked about the second failure
C34_Witness ==
    /\ max_retries = 2 /\ rtPc = "raised" /\ calls = 3
    /\ waits = <<0, 1>>
    /\ lastCheck.attempt = 1 /\ lastCheck.error.id = 2 /\ lastCheck.verdict

\* success at the third invocation: two waits, none after it
C34_WitnessReturn ==
    /\ max_retries = 3 /\ rtPc = "returned" /\ calls = 3
    /\ waits = <<0, 1>>

----------------------------------------------------------------------------
\* one sequence is an initial segment of the other
IsPrefixOf(a, b) == Len(a) <= Len(b) /\ SubSeq(b, 1, Len(a)) = a

\* C35: paginate_async walks the pages as paginate does.  At every moment
\* the fetch parameters issued and the items yielded by one of the two are
\* an initial segment of the other's; once both have finished, the two
\* sequences of fetch parameters are equal and the two sequences of items
\* are equal; and the async generator is suspended in an await exactly
\* between a fetch_page call and its response (one more call issued than
\* responses consumed).
C35_AsyncSameWalk ==
    aPc # "idle" =>
        /\ IsPrefixOf(aFetchLog, fetchLog) \/ IsPrefixOf(fetchLog, aFetchLog)
        /\ IsPrefixOf(aYielded, yielded) \/ IsPrefixOf(yielded, aYielded)
        /\ (pgRet /\ aPc = "done") =>
               /\ aFetchLog = fetchLog
               /\ aYielded = yielded
        /\ aPc = "awaiting" <=>
               /\ aFetchLog # << >>
               /\ aResponse # FetchPage(aFetchLog[Len(aFetchLog)])

\* both walked a three-page chain to its end
C35_Witness ==
    /\ pgRet /\ aPc = "done"
    /\ Len(aFetchLog) = 3 /\ aFetchLog = fetchLog
    /\ Len(aYielded) >= 3 /\ aYielded = yielded

\* both stopped by max_items in the middle of a page
C35_WitnessMaxItems ==
    /\ pgRet /\ aPc = "done"
    /\ ~IsNone(max_items) /\ Val(max_items) = 3
    /\ Len(aYielded) = 3 /\ aYielded = yielded
    /\ aIdx < Len(get_items(aResponse))

\* the async generator suspended in the await of its second fetch
C35_WitnessAwaiting ==
    /\ aPc = "awaiting" /\ Len(aFetchLog) = 2
    /\ Len(aYielded) >= 1

----------------------------------------------------------------------------
\* C36: a subscribe_<channel>, subscribe_all_<channel> or unsubscribe call
\* on a connected client writes exactly one frame; the frame of unsubscribe
\* is the ticker-scoped one, carrying the tickers passed, whenever a tickers
\* argument was supplied, and the all: true one only when none was.
C36_OneFramePerCall ==
    (lastSend.op # "none" /\ lastSend.connected) =>
        /\ Len(lastSend.frame) = 1
        /\ lastSend.op = "unsubscribe" =>
              /\ ~IsNone(lastSend.tickers) =>
                    /\ lastSend.frame[1].hasTickers
                    /\ ~lastSend.frame[1].hasAll
                    /\ lastSend.frame[1].tickers = Val(lastSend.tickers)
              /\ lastSend.frame[1].hasAll => IsNone(lastSend.tickers)

----------------------------------------------------------------------------
\* C37: no exception raised by a user callback stops the listener.  Across
\* every step a task that listens on an open transport, and whose transport
\* is still open after the step, is listening afterwards (so the messages
\* that arrive later are handled), and the step raises nothing into the
\* user's own call.
C37_ListenerSurvivesCallbacks ==
    [][\A i \in 1..Len(tasks) :
         (/\ tasks[i].pc = "listening"
          /\ ~Closed(tasks[i].ws)
          /\ transports' = transports)
         => /\ tasks'[i].pc = "listening"
            /\ userRaised' = userRaised
      ]_vars

----------------------------------------------------------------------------
\* a connect() handshake is in flight, in the user's call or in a task
HandshakeInFlight ==
    \/ userPc = "handshake"
    \/ \E i \in 1..Len(tasks) : tasks[i].pc = "handshake"

\* C38: the connecting flag is true exactly while a connect() handshake is
\* in flight; after every outcome of a handshake (success, failure,
\* cancellation of the task awaiting it) the flag is false.
C38_ConnectingOnlyInFlight ==
    is_connecting <=> HandshakeInFlight

----------------------------------------------------------------------------
\* C39: control frames are written only inside subscribe_* and unsubscribe
\* calls.  A step of the connection life cycle (connect(), a handshake
\* outcome, a drop, the listener's reconnect, disconnect()) writes no frame;
\* a step that writes a frame is one of those calls and changes nothing of
\* the connection; so a transport opened by a reconnect carries no frame
\* until the user subscribes again.
C39_FramesOnlyInCalls ==
    [][/\ wsVars' # wsVars => lastSend' = lastSend
       /\ lastSend' # lastSend =>
             /\ lastSend'.op \in {"subscribe", "subscribe_all", "unsubscribe"}
             /\ lastSend'.wrote \in {0, ws}
             /\ wsVars' = wsVars
      ]_vars

\* subscribed on the first transport, which dropped; the listener's
\* reconnect opened the second, and the last frame written is still the one
\* written to the first
C39_Witness ==
    /\ connectCalls = 1 /\ ws = 2 /\ IsConnected
    /\ tasks[1].pc = "done" /\ tasks[2].pc = "listening"
    /\ lastSend.op = "subscribe" /\ lastSend.wrote = 1

\* disconnect() after a subscription: nothing written by it
C39_WitnessDisconnect ==
    /\ disconnected /\ ws = 0
    /\ lastSend.op = "subscribe_all" /\ lastSend.wrote = 1

----------------------------------------------------------------------------
\* task i takes a step of an automatic reconnect: it wakes from the wait
\* and enters connect(), or its handshake ends
ReconnectStep(i) ==
    \/ tasks[i].pc = "sleeping" /\ tasks'[i].pc = "handshake"
    \/ tasks[i].pc = "handshake" /\ tasks'[i].pc = "done"

\* C40: once disconnect() has been called the instance never reconnects on
\* its own again.  The reconnect flag, once false, stays false whatever is
\* called (a later connect() included), and while it is false no task
\* takes a step of an automatic reconnect.
C40_NoReconnectAfterDisconnect ==
    [][~reconnect =>
         /\ ~reconnect'
         /\ \A i \in 1..Len(tasks) : ~ReconnectStep(i)
      ]_vars

=============================================================================
